---------------------------- MODULE Spec2Model ----------------------------
(***************************************************************************)
(* Background animation engine of the sigye terminal clock.                *)
(*                                                                         *)
(* BackgroundState (crates/sigye-background/src/state.rs) owns the         *)
(* stateful animators (matrix rain, snowfall, rain, storm, wind) and       *)
(* advances them once per rendered frame.                                  *)
(*                                                                         *)
(* Numbers.  The source keeps positions and speeds in f32.  The model      *)
(* keeps them as exact fixed-point integers:                               *)
(*   matrix  y  in 1/3000 cell   (delta_ms/50 * fall_speed * speed)        *)
(*   snow    y  in 1/3200 cell   (delta_ms/80 * fall_speed * speed)        *)
(*   rain    y  in 1/2000 cell   (delta_ms/40 * fall_speed * speed)        *)
(*   wind    x  in 1/600  cell   (delta_ms/30 * wind_speed * speed)        *)
(* and a column's speed as the numerator of the fraction the source        *)
(* computes (matrix (9+2k)/30, snow (4+k)/20, rain (20+k)/25, wind         *)
(* (5+k)/10).  flash_intensity is the fraction num/den.                    *)
(* usize/u64 wrapping operations are written as the plain operations: the  *)
(* seeds and times of the model keep every product far below the word      *)
(* size, where both agree.                                                 *)
(***************************************************************************)
EXTENDS Integers, Sequences, FiniteSets, TLC

VARIABLES
    matrix_columns,   \* BackgroundState.matrix_columns : Seq(MatrixColumn)
    snow_columns,     \* BackgroundState.snow_columns   : Seq(SnowColumn)
    rain_columns,     \* BackgroundState.rain_columns   : Seq(RainColumn)
    storm_state,      \* BackgroundState.storm_state    : NoStorm or StormState
    wind_streaks,     \* BackgroundState.wind_streaks   : Seq(WindStreak)
    last_width,       \* BackgroundState.last_width
    last_height,      \* BackgroundState.last_height
    last_update_ms,   \* BackgroundState.last_update_ms
    init_seed,        \* BackgroundState.init_seed
    panicked,         \* TRUE once a call has panicked (the thread unwinds)
    rendered,         \* what the latest call drew: a stateful style, "Stateless",
                      \* "Skipped" (None or reactive), "Panicked", "Nothing" at the start
    delta_ms,         \* delta handed to the animators by the latest render
    inits,            \* storages (re)built by the latest render
    frames,           \* number of calls made so far
    flashes,          \* number of lightning flashes triggered so far
    calm_seen,        \* a call has ended Calm with zero intensity since the last trigger
    clock,            \* elapsed_ms argument of the latest call that got past the early returns
    input,            \* arguments of the function call under evaluation, NoCall outside one
    output,           \* what that call returned, Pending before it has run
    cells,            \* the monitor's RwLock cells (primary and cache), NoMonitor outside one
    threads           \* the monitor's producer thread and the reader's call

vars == <<matrix_columns, snow_columns, rain_columns, storm_state, wind_streaks,
          last_width, last_height, last_update_ms, init_seed, panicked,
          rendered, delta_ms, inits, frames, flashes, calm_seen, clock,
          input, output, cells, threads>>

monvars == <<cells, threads>>

NoMonitor == [monitor |-> "none"]

NoCall == [fn |-> "none"]

Pending == [fn |-> "pending"]

bgvars == <<matrix_columns, snow_columns, rain_columns, storm_state, wind_streaks,
            last_width, last_height, last_update_ms, init_seed>>

-----------------------------------------------------------------------------
(* Bounds *)

MaxFrames == 3

InitSeeds == {1007}

\* terminal sizes <<width, height>> a frame may have
Sizes == {<<0, 1>>, <<1, 0>>, <<1, 1>>, <<2, 1>>}

\* elapsed_ms values a caller may pass (in any order)
Times == {0, 1000}

-----------------------------------------------------------------------------
(* sigye_core: AnimationSpeed and BackgroundStyle *)

AnimationSpeed == {"Slow", "Medium", "Fast"}

StatefulStyles == {"MatrixRain", "Snowfall", "Rainy", "Stormy", "Windy"}

StatelessStyles == {"Starfield", "GradientWave", "Frost", "Aurora", "Sunny", "Cloudy", "Foggy"}

ReactiveStyles == {"SystemPulse", "ResourceWave", "DataFlow", "HeatMap"}

BackgroundStyle == {"None"} \cup StatelessStyles \cup StatefulStyles \cup ReactiveStyles

is_reactive(style) == style \in ReactiveStyles

\* twice the speed multiplier: Slow 0.5, Medium 1.0, Fast 2.0
SpeedFactor2(speed) ==
    CASE speed = "Slow" -> 1
      [] speed = "Medium" -> 2
      [] speed = "Fast" -> 4

matrix_fall_speed2(speed) == SpeedFactor2(speed)

snow_fall_speed2(speed) == SpeedFactor2(speed)

rain_fall_speed2(speed) == SpeedFactor2(speed)

wind_streak_speed2(speed) == SpeedFactor2(speed)

lightning_interval_ms(speed) ==
    CASE speed = "Slow" -> <<8000, 15000>>
      [] speed = "Medium" -> <<4000, 10000>>
      [] speed = "Fast" -> <<2000, 5000>>

-----------------------------------------------------------------------------
(* Integer helpers *)

\* a subtraction that does not stop at zero
unchecked_sub(a, b) == a - b

saturating_sub(a, b) == IF a >= b THEN a - b ELSE 0

clamp(v, lo, hi) == IF v < lo THEN lo ELSE IF v > hi THEN hi ELSE v

\* positions per cell of the fixed-point representation
MatrixUnit == 3000

SnowUnit == 3200

RainUnit == 2000

WindUnit == 600

-----------------------------------------------------------------------------
(* matrix.rs *)

\* Panics with a remainder by zero when a column is built for height 0.
init_columns_panics(width, height) == width > 0 /\ height = 0

\* a stagger taken modulo height instead of height * 2
init_columns_short_stagger(width, height) ==
    [i \in 1..width |->
        LET x == i - 1
            stagger == (x * 7 + 3) % height
        IN [y |-> -(stagger * MatrixUnit),
            speed |-> 9 + 2 * ((x * 13) % 10),
            trail_length |-> 4 + ((x * 11) % 8),
            char_seed |-> x * 17]]

init_columns(width, height) ==
    [i \in 1..width |->
        LET x == i - 1
            stagger == (x * 7 + 3) % (height * 2)
        IN [y |-> -(stagger * MatrixUnit),
            speed |-> 9 + 2 * ((x * 13) % 10),
            trail_length |-> 4 + ((x * 11) % 8),
            char_seed |-> x * 17]]

\* One column of matrix::update; advance is delta_y * col.speed in position units.
\* a reset to the top row instead of above the screen
matrix_update_col_to_top(col, advance, height) ==
    LET y1 == col.y + advance
    IN IF y1 > (height + col.trail_length) * MatrixUnit
       THEN [col EXCEPT !.y = 0, !.char_seed = col.char_seed + 1]
       ELSE [col EXCEPT !.y = y1]

matrix_update_col(col, advance, height) ==
    LET y1 == col.y + advance
    IN IF y1 > (height + col.trail_length) * MatrixUnit
       THEN [col EXCEPT !.y = -(col.trail_length * MatrixUnit),
                        !.char_seed = col.char_seed + 1]
       ELSE [col EXCEPT !.y = y1]

matrix_update(columns, delta, height, speed) ==
    [i \in 1..Len(columns) |->
        matrix_update_col(columns[i],
                          delta * matrix_fall_speed2(speed) * columns[i].speed,
                          height)]

-----------------------------------------------------------------------------
(* weather.rs: rain *)

init_rain_columns_panics(width, height) == width > 0 /\ height = 0

\* a seed mixed with the wall clock of the run, not the one kept in init_seed
init_rain_columns_wall_clock(width, height, seed) ==
    [i \in 1..width |->
        LET x == i - 1
            mixed == x * 29 + seed + (IF input.fn = "second" THEN 1 ELSE 0)
            stagger == (mixed * 13) % (height * 2)
        IN [y |-> -(stagger * RainUnit),
            speed |-> 20 + ((mixed * 17) % 10),
            char_seed |-> mixed * 23,
            intensity |-> (mixed * 7) % 3]]

init_rain_columns(width, height, seed) ==
    [i \in 1..width |->
        LET x == i - 1
            mixed == x * 29 + seed
            stagger == (mixed * 13) % (height * 2)
        IN [y |-> -(stagger * RainUnit),
            speed |-> 20 + ((mixed * 17) % 10),
            char_seed |-> mixed * 23,
            intensity |-> (mixed * 7) % 3]]

\* a reset that carries the overshoot past the bottom over to the top
rain_update_col_carries_overshoot(col, advance, height) ==
    LET y1 == col.y + advance
    IN IF y1 > (height + 1) * RainUnit
       THEN [col EXCEPT !.y = -RainUnit + ((y1 - (height + 1) * RainUnit) % RainUnit),
                        !.char_seed = col.char_seed + 1]
       ELSE [col EXCEPT !.y = y1]

rain_update_col(col, advance, height) ==
    LET y1 == col.y + advance
    IN IF y1 > (height + 1) * RainUnit
       THEN [col EXCEPT !.y = -RainUnit, !.char_seed = col.char_seed + 1]
       ELSE [col EXCEPT !.y = y1]

update_rain(columns, delta, height, speed) ==
    [i \in 1..Len(columns) |->
        rain_update_col(columns[i],
                        delta * rain_fall_speed2(speed) * columns[i].speed,
                        height)]

-----------------------------------------------------------------------------
(* weather.rs: snow *)

init_snow_columns_panics(width, height) == width > 0 /\ height = 0

init_snow_columns(width, height, seed) ==
    [i \in 1..width |->
        LET x == i - 1
            mixed == x * 31 + seed
            stagger == (mixed * 11 + 7) % (height * 3)
        IN [y |-> -(stagger * SnowUnit),
            speed |-> 4 + ((mixed * 17) % 10),
            drift_phase |-> (mixed * 23) % 100,
            size |-> (mixed * 13) % 3,
            char_seed |-> mixed * 19]]

\* a reset that leaves the seed alone
snow_update_col_same_seed(col, advance, height) ==
    LET y1 == col.y + advance
    IN IF y1 > (height + 2) * SnowUnit
       THEN [col EXCEPT !.y = -(2 * SnowUnit)]
       ELSE [col EXCEPT !.y = y1]

snow_update_col(col, advance, height) ==
    LET y1 == col.y + advance
    IN IF y1 > (height + 2) * SnowUnit
       THEN [col EXCEPT !.y = -(2 * SnowUnit), !.char_seed = col.char_seed + 1]
       ELSE [col EXCEPT !.y = y1]

update_snow(columns, delta, height, speed) ==
    [i \in 1..Len(columns) |->
        snow_update_col(columns[i],
                        delta * snow_fall_speed2(speed) * columns[i].speed,
                        height)]

-----------------------------------------------------------------------------
(* weather.rs: storm *)

NoStorm == [absent |-> TRUE]

\* flash_intensity values: the fraction num/den, 0.0 and 1.0 in one form each
Intensity(n, d) ==
    IF n <= 0 THEN [num |-> 0, den |-> 1]
    ELSE IF n = d THEN [num |-> 1, den |-> 1]
    ELSE [num |-> n, den |-> d]

init_storm_panics(width, height) == init_rain_columns_panics(width, height)

init_storm(width, height, seed) ==
    [rain_columns |-> init_rain_columns(width, height, seed),
     last_lightning_ms |-> 0,
     lightning_duration_ms |-> 0,
     next_lightning_interval |-> 2000 + (seed % 3000),
     flash_intensity |-> Intensity(0, 1),
     lightning_seed |-> seed]

\* a trigger that does not wait for the running flash to end
update_lightning_overlap(state, elapsed_ms, speed) ==
    LET time_since_flash == saturating_sub(elapsed_ms, state.last_lightning_ms)
    IN IF time_since_flash > state.next_lightning_interval
       THEN [state EXCEPT
               !.last_lightning_ms = elapsed_ms,
               !.lightning_duration_ms = 100 + (state.lightning_seed % 150),
               !.flash_intensity = Intensity(1, 1)]
       ELSE IF state.lightning_duration_ms > 0
       THEN [state EXCEPT
               !.flash_intensity =
                   Intensity(state.lightning_duration_ms - time_since_flash,
                             state.lightning_duration_ms)]
       ELSE state

\* a trigger as soon as the interval is reached, not only once it is passed
update_lightning_at_interval(state, elapsed_ms, speed) ==
    LET time_since_flash == saturating_sub(elapsed_ms, state.last_lightning_ms)
        min_interval == lightning_interval_ms(speed)[1]
        max_interval == lightning_interval_ms(speed)[2]
    IN IF state.lightning_duration_ms > 0
       THEN IF time_since_flash > state.lightning_duration_ms
            THEN [state EXCEPT
                    !.lightning_duration_ms = 0,
                    !.flash_intensity = Intensity(0, 1),
                    !.next_lightning_interval =
                        min_interval
                        + ((state.lightning_seed * 17) % (max_interval - min_interval)),
                    !.lightning_seed = state.lightning_seed + elapsed_ms]
            ELSE [state EXCEPT
                    !.flash_intensity =
                        Intensity(state.lightning_duration_ms - time_since_flash,
                                  state.lightning_duration_ms)]
       ELSE IF time_since_flash >= state.next_lightning_interval
            THEN [state EXCEPT
                    !.last_lightning_ms = elapsed_ms,
                    !.lightning_duration_ms = 100 + (state.lightning_seed % 150),
                    !.flash_intensity = Intensity(1, 1)]
            ELSE state

\* a next interval drawn without the minimum added
update_lightning_no_minimum(state, elapsed_ms, speed) ==
    LET time_since_flash == saturating_sub(elapsed_ms, state.last_lightning_ms)
        min_interval == lightning_interval_ms(speed)[1]
        max_interval == lightning_interval_ms(speed)[2]
    IN IF state.lightning_duration_ms > 0
       THEN IF time_since_flash > state.lightning_duration_ms
            THEN [state EXCEPT
                    !.lightning_duration_ms = 0,
                    !.flash_intensity = Intensity(0, 1),
                    !.next_lightning_interval =
                        (state.lightning_seed * 17) % (max_interval - min_interval),
                    !.lightning_seed = state.lightning_seed + elapsed_ms]
            ELSE [state EXCEPT
                    !.flash_intensity =
                        Intensity(state.lightning_duration_ms - time_since_flash,
                                  state.lightning_duration_ms)]
       ELSE IF time_since_flash > state.next_lightning_interval
            THEN [state EXCEPT
                    !.last_lightning_ms = elapsed_ms,
                    !.lightning_duration_ms = 100 + (state.lightning_seed % 150),
                    !.flash_intensity = Intensity(1, 1)]
            ELSE state

\* a flash whose end leaves the duration in place
update_lightning_no_end(state, elapsed_ms, speed) ==
    LET time_since_flash == saturating_sub(elapsed_ms, state.last_lightning_ms)
        min_interval == lightning_interval_ms(speed)[1]
        max_interval == lightning_interval_ms(speed)[2]
    IN IF state.lightning_duration_ms > 0
       THEN IF time_since_flash > state.lightning_duration_ms
            THEN [state EXCEPT
                    !.flash_intensity = Intensity(0, 1),
                    !.next_lightning_interval =
                        min_interval
                        + ((state.lightning_seed * 17) % (max_interval - min_interval)),
                    !.lightning_seed = state.lightning_seed + elapsed_ms]
            ELSE [state EXCEPT
                    !.flash_intensity =
                        Intensity(state.lightning_duration_ms - time_since_flash,
                                  state.lightning_duration_ms)]
       ELSE IF time_since_flash > state.next_lightning_interval
            THEN [state EXCEPT
                    !.last_lightning_ms = elapsed_ms,
                    !.lightning_duration_ms = 100 + (state.lightning_seed % 150),
                    !.flash_intensity = Intensity(1, 1)]
            ELSE state

\* a flash that brightens with the elapsed fraction instead of fading
update_lightning_rising(state, elapsed_ms, speed) ==
    LET time_since_flash == saturating_sub(elapsed_ms, state.last_lightning_ms)
        min_interval == lightning_interval_ms(speed)[1]
        max_interval == lightning_interval_ms(speed)[2]
    IN IF state.lightning_duration_ms > 0
       THEN IF time_since_flash > state.lightning_duration_ms
            THEN [state EXCEPT
                    !.lightning_duration_ms = 0,
                    !.flash_intensity = Intensity(0, 1),
                    !.next_lightning_interval =
                        min_interval
                        + ((state.lightning_seed * 17) % (max_interval - min_interval)),
                    !.lightning_seed = state.lightning_seed + elapsed_ms]
            ELSE [state EXCEPT
                    !.flash_intensity =
                        Intensity(time_since_flash, state.lightning_duration_ms)]
       ELSE IF time_since_flash > state.next_lightning_interval
            THEN [state EXCEPT
                    !.last_lightning_ms = elapsed_ms,
                    !.lightning_duration_ms = 100 + (state.lightning_seed % 150),
                    !.flash_intensity = Intensity(1, 1)]
            ELSE state

\* The lightning part of update_storm (weather.rs 224-246).
update_lightning(state, elapsed_ms, speed) ==
    LET time_since_flash == saturating_sub(elapsed_ms, state.last_lightning_ms)
        min_interval == lightning_interval_ms(speed)[1]
        max_interval == lightning_interval_ms(speed)[2]
    IN IF state.lightning_duration_ms > 0
       THEN IF time_since_flash > state.lightning_duration_ms
            THEN [state EXCEPT
                    !.lightning_duration_ms = 0,
                    !.flash_intensity = Intensity(0, 1),
                    !.next_lightning_interval =
                        min_interval
                        + ((state.lightning_seed * 17) % (max_interval - min_interval)),
                    !.lightning_seed = state.lightning_seed + elapsed_ms]
            ELSE [state EXCEPT
                    !.flash_intensity =
                        Intensity(state.lightning_duration_ms - time_since_flash,
                                  state.lightning_duration_ms)]
       ELSE IF time_since_flash > state.next_lightning_interval
            THEN [state EXCEPT
                    !.last_lightning_ms = elapsed_ms,
                    !.lightning_duration_ms = 100 + (state.lightning_seed % 150),
                    !.flash_intensity = Intensity(1, 1)]
            ELSE state

update_storm(state, elapsed_ms, delta, height, speed) ==
    update_lightning(
        [state EXCEPT !.rain_columns = update_rain(state.rain_columns, delta, height, speed)],
        elapsed_ms, speed)

-----------------------------------------------------------------------------
(* weather.rs: wind *)

num_streaks(width, height) == clamp((width * height) \div 40, 10, 200)

\* width * 2 and height are divisors of the first streak already.
init_wind_streaks_panics(width, height) == width = 0 \/ height = 0

init_wind_streaks(width, height, seed) ==
    [n \in 1..num_streaks(width, height) |->
        LET i == n - 1
            mixed == i * 37 + seed
            start_offset == (mixed * 19) % (width * 2)
        IN [x |-> -(start_offset * WindUnit),
            y |-> (mixed * 23) % height,
            speed |-> 5 + ((mixed * 13) % 10),
            length |-> 3 + ((mixed * 7) % 6),
            char_seed |-> mixed * 31]]

wind_wraps(streak, advance, width) ==
    streak.x + advance > (width + streak.length) * WindUnit

\* a new row taken modulo width instead of height
wind_update_streak_row_by_width(streak, advance, width, height) ==
    IF wind_wraps(streak, advance, width)
    THEN [streak EXCEPT !.x = -(streak.length * WindUnit),
                        !.y = (streak.char_seed * 17) % width,
                        !.char_seed = streak.char_seed + 1]
    ELSE [streak EXCEPT !.x = streak.x + advance]

wind_update_streak(streak, advance, width, height) ==
    IF wind_wraps(streak, advance, width)
    THEN [streak EXCEPT !.x = -(streak.length * WindUnit),
                        !.y = (streak.char_seed * 17) % height,
                        !.char_seed = streak.char_seed + 1]
    ELSE [streak EXCEPT !.x = streak.x + advance]

\* A streak that wraps takes its new row modulo height: a panic for height 0.
update_wind_panics(streaks, delta, width, height, speed) ==
    /\ height = 0
    /\ \E i \in 1..Len(streaks) :
          wind_wraps(streaks[i], delta * wind_streak_speed2(speed) * streaks[i].speed, width)

update_wind(streaks, delta, width, height, speed) ==
    [i \in 1..Len(streaks) |->
        wind_update_streak(streaks[i],
                           delta * wind_streak_speed2(speed) * streaks[i].speed,
                           width, height)]

-----------------------------------------------------------------------------
(* state.rs: BackgroundState *)

\* BackgroundState::new (the seed is the wall clock at construction)
New(seed) ==
    /\ matrix_columns = <<>>
    /\ snow_columns = <<>>
    /\ rain_columns = <<>>
    /\ storm_state = NoStorm
    /\ wind_streaks = <<>>
    /\ last_width = 0
    /\ last_height = 0
    /\ last_update_ms = 0
    /\ init_seed = seed

dimensions_changed(width, height) == width # last_width \/ height # last_height

\* a rebuild on a change of dimensions only
NeedsInit_resize_only(style, width, height) ==
    style \in StatefulStyles /\ dimensions_changed(width, height)

\* the storages render rebuilds for this style and size (state.rs 93-112)
NeedsInit(style, width, height) ==
    IF style \notin StatefulStyles THEN FALSE
    ELSE \/ dimensions_changed(width, height)
         \/ style = "MatrixRain" /\ matrix_columns = <<>>
         \/ style = "Snowfall" /\ snow_columns = <<>>
         \/ style = "Rainy" /\ rain_columns = <<>>
         \/ style = "Stormy" /\ storm_state = NoStorm
         \/ style = "Windy" /\ wind_streaks = <<>>

InitPanics(style, width, height) ==
    CASE style = "MatrixRain" -> init_columns_panics(width, height)
      [] style = "Snowfall" -> init_snow_columns_panics(width, height)
      [] style = "Rainy" -> init_rain_columns_panics(width, height)
      [] style = "Stormy" -> init_storm_panics(width, height)
      [] style = "Windy" -> init_wind_streaks_panics(width, height)
      [] OTHER -> FALSE

\* The call unwinds: nothing of the frame is observed afterwards.
Panic ==
    /\ panicked' = TRUE
    /\ rendered' = "Panicked"
    /\ UNCHANGED <<bgvars, delta_ms, inits>>

\* a frame that tears down the storage of every style it does not draw
RenderFrame_teardown(style, width, height, elapsed_ms, speed) ==
    LET init == NeedsInit(style, width, height)
        delta == saturating_sub(elapsed_ms, last_update_ms)
        matrix1 == IF style # "MatrixRain" THEN <<>>
                   ELSE IF init THEN init_columns(width, height) ELSE matrix_columns
        snow1 == IF style # "Snowfall" THEN <<>>
                 ELSE IF init THEN init_snow_columns(width, height, init_seed)
                 ELSE snow_columns
        rain1 == IF style # "Rainy" THEN <<>>
                 ELSE IF init THEN init_rain_columns(width, height, init_seed)
                 ELSE rain_columns
        storm1 == IF style # "Stormy" THEN NoStorm
                  ELSE IF init THEN init_storm(width, height, init_seed) ELSE storm_state
        wind1 == IF style # "Windy" THEN <<>>
                 ELSE IF init THEN init_wind_streaks(width, height, init_seed)
                 ELSE wind_streaks
    IN IF init /\ InitPanics(style, width, height) THEN Panic
       ELSE IF style = "Windy" /\ update_wind_panics(wind1, delta, width, height, speed)
       THEN Panic
       ELSE /\ panicked' = FALSE
            /\ rendered' = IF style \in StatefulStyles THEN style ELSE "Stateless"
            /\ inits' = IF init THEN {style} ELSE {}
            /\ last_width' = width
            /\ last_height' = height
            /\ delta_ms' = delta
            /\ last_update_ms' = elapsed_ms
            /\ matrix_columns' = IF style = "MatrixRain"
                                 THEN matrix_update(matrix1, delta, height, speed)
                                 ELSE matrix1
            /\ snow_columns' = IF style = "Snowfall"
                               THEN update_snow(snow1, delta, height, speed)
                               ELSE snow1
            /\ rain_columns' = IF style = "Rainy"
                               THEN update_rain(rain1, delta, height, speed)
                               ELSE rain1
            /\ storm_state' = IF style = "Stormy"
                              THEN update_storm(storm1, elapsed_ms, delta, height, speed)
                              ELSE storm1
            /\ wind_streaks' = IF style = "Windy"
                               THEN update_wind(wind1, delta, width, height, speed)
                               ELSE wind1
            /\ UNCHANGED init_seed

RenderFrame(style, width, height, elapsed_ms, speed) ==
    LET init == NeedsInit(style, width, height)
        delta == saturating_sub(elapsed_ms, last_update_ms)
        matrix1 == IF init /\ style = "MatrixRain"
                   THEN init_columns(width, height) ELSE matrix_columns
        snow1 == IF init /\ style = "Snowfall"
                 THEN init_snow_columns(width, height, init_seed) ELSE snow_columns
        rain1 == IF init /\ style = "Rainy"
                 THEN init_rain_columns(width, height, init_seed) ELSE rain_columns
        storm1 == IF init /\ style = "Stormy"
                  THEN init_storm(width, height, init_seed) ELSE storm_state
        wind1 == IF init /\ style = "Windy"
                 THEN init_wind_streaks(width, height, init_seed) ELSE wind_streaks
    IN IF init /\ InitPanics(style, width, height) THEN Panic
       ELSE IF style = "Windy" /\ update_wind_panics(wind1, delta, width, height, speed)
       THEN Panic
       ELSE /\ panicked' = FALSE
            /\ rendered' = IF style \in StatefulStyles THEN style ELSE "Stateless"
            /\ inits' = IF init THEN {style} ELSE {}
            /\ last_width' = width
            /\ last_height' = height
            /\ delta_ms' = delta
            /\ last_update_ms' = elapsed_ms
            /\ matrix_columns' = IF style = "MatrixRain"
                                 THEN matrix_update(matrix1, delta, height, speed)
                                 ELSE matrix1
            /\ snow_columns' = IF style = "Snowfall"
                               THEN update_snow(snow1, delta, height, speed)
                               ELSE snow1
            /\ rain_columns' = IF style = "Rainy"
                               THEN update_rain(rain1, delta, height, speed)
                               ELSE rain1
            /\ storm_state' = IF style = "Stormy"
                              THEN update_storm(storm1, elapsed_ms, delta, height, speed)
                              ELSE storm1
            /\ wind_streaks' = IF style = "Windy"
                               THEN update_wind(wind1, delta, width, height, speed)
                               ELSE wind1
            /\ UNCHANGED init_seed

\* a render whose early return for a reactive style first notes the time
Render_reactive_advances(style, width, height, elapsed_ms, speed, metrics) ==
    /\ ~panicked
    /\ frames < MaxFrames
    /\ frames' = frames + 1
    /\ UNCHANGED <<flashes, calm_seen>>
    /\ IF style = "None"
       THEN /\ rendered' = "Skipped"
            /\ UNCHANGED <<bgvars, panicked, delta_ms, inits, clock>>
       ELSE IF is_reactive(style)
       THEN /\ rendered' = "Skipped"
            /\ last_update_ms' = elapsed_ms
            /\ UNCHANGED <<matrix_columns, snow_columns, rain_columns, storm_state,
                           wind_streaks, last_width, last_height, init_seed,
                           panicked, delta_ms, inits, clock>>
       ELSE /\ clock' = elapsed_ms
            /\ RenderFrame(style, width, height, elapsed_ms, speed)

\* BackgroundState::render.  None and the reactive styles return before any
\* field is read or written (state.rs 74-88).
Render(style, width, height, elapsed_ms, speed, metrics) ==
    /\ ~panicked
    /\ frames < MaxFrames
    /\ frames' = frames + 1
    /\ UNCHANGED <<flashes, calm_seen>>
    /\ IF style = "None" \/ is_reactive(style)
       THEN /\ rendered' = "Skipped"
            /\ UNCHANGED <<bgvars, panicked, delta_ms, inits, clock>>
       ELSE /\ clock' = elapsed_ms
            /\ RenderFrame(style, width, height, elapsed_ms, speed)

Init ==
    /\ \E seed \in InitSeeds : New(seed)
    /\ panicked = FALSE
    /\ rendered = "Nothing"
    /\ delta_ms = 0
    /\ inits = {}
    /\ frames = 0
    /\ flashes = 0
    /\ calm_seen = TRUE
    /\ clock = 0
    /\ cells = NoMonitor
    /\ threads = NoMonitor
    /\ input = NoCall
    /\ output = NoCall

\* a frame that returns early: the size, time and speed are never used
RenderSkipped ==
    \E style \in {"None"} \cup ReactiveStyles, metrics \in BOOLEAN :
        /\ Render(style, 0, 0, 0, "Medium", metrics)
        /\ UNCHANGED <<input, output, monvars>>

RenderDrawn ==
    \E style \in StatelessStyles \cup StatefulStyles, size \in Sizes,
       elapsed_ms \in Times, speed \in AnimationSpeed :
        /\ Render(style, size[1], size[2], elapsed_ms, speed, FALSE)
        /\ UNCHANGED <<input, output, monvars>>

Next == RenderSkipped \/ RenderDrawn

Spec == Init /\ [][Next]_vars

-----------------------------------------------------------------------------
(* update_storm called directly, with any elapsed_ms (SpecStorm) *)

MaxStormCalls == 6

StormSeeds == {1007, 3000}

StormSizes == {<<0, 1>>, <<1, 1>>}

\* elapsed_ms of a call, relative to the previous call's
StormSteps == {-2000, 50, 100, 2000}

\* weather::init_storm(width, height, seed) held by a fresh BackgroundState
InitStormWith(seed, width, height) ==
    /\ matrix_columns = <<>>
    /\ snow_columns = <<>>
    /\ rain_columns = <<>>
    /\ storm_state = init_storm(width, height, seed)
    /\ wind_streaks = <<>>
    /\ last_width = width
    /\ last_height = height
    /\ last_update_ms = 0
    /\ init_seed = seed
    /\ panicked = FALSE
    /\ rendered = "Nothing"
    /\ inits = {}
    /\ frames = 0
    /\ flashes = 0
    /\ calm_seen = TRUE
    /\ clock = 0
    /\ cells = NoMonitor
    /\ threads = NoMonitor
    /\ input = NoCall
    /\ output = NoCall

\* One call of update_storm.  A trigger is the only write of last_lightning_ms.
StormCall(elapsed_ms, delta, speed) ==
    LET new == update_storm(storm_state, elapsed_ms, delta, last_height, speed)
        triggered == new.last_lightning_ms # storm_state.last_lightning_ms
    IN /\ storm_state' = new
       /\ clock' = elapsed_ms
       /\ frames' = frames + 1
       /\ flashes' = IF triggered THEN flashes + 1 ELSE flashes
       /\ calm_seen' = IF triggered THEN FALSE
                       ELSE \/ calm_seen
                            \/ /\ new.lightning_duration_ms = 0
                               /\ new.flash_intensity = Intensity(0, 1)
       /\ UNCHANGED <<matrix_columns, snow_columns, rain_columns, wind_streaks,
                      last_width, last_height, last_update_ms, init_seed,
                      panicked, rendered, inits, input, output, monvars>>

InitStorm ==
    /\ \E seed \in StormSeeds, size \in StormSizes : InitStormWith(seed, size[1], size[2])
    /\ delta_ms = 0

StormUpdate ==
    \E step \in StormSteps, speed \in AnimationSpeed :
        /\ frames < MaxStormCalls
        /\ clock + step >= 0
        /\ delta_ms' = saturating_sub(clock + step, clock)
        /\ StormCall(clock + step, delta_ms', speed)

NextStorm == StormUpdate

SpecStorm == InitStorm /\ [][NextStorm]_vars

-----------------------------------------------------------------------------
(* update_storm called with elapsed_ms growing by a fixed step (SpecStormCycle) *)

CycleHorizon == 24000

CycleSteps == {40, 100, 3000}

\* the rain columns of a storm are advanced in Spec and SpecStorm
CycleSizes == {<<0, 1>>}

\* delta_ms holds the fixed step of the run
InitCycle ==
    /\ \E seed \in StormSeeds, size \in CycleSizes : InitStormWith(seed, size[1], size[2])
    /\ delta_ms \in CycleSteps

StormTick ==
    \E speed \in AnimationSpeed :
        /\ clock + delta_ms <= CycleHorizon
        /\ UNCHANGED delta_ms
        /\ StormCall(clock + delta_ms, delta_ms, speed)

NextCycle == StormTick

\* the caller keeps rendering frames: the next call always comes
SpecStormCycle == InitCycle /\ [][NextCycle]_vars /\ WF_vars(NextCycle)

-----------------------------------------------------------------------------
(* Properties of BackgroundState::render, checked under Spec *)

StorageEmpty(style) ==
    CASE style = "MatrixRain" -> matrix_columns = <<>>
      [] style = "Snowfall" -> snow_columns = <<>>
      [] style = "Rainy" -> rain_columns = <<>>
      [] style = "Stormy" -> storm_state = NoStorm
      [] style = "Windy" -> wind_streaks = <<>>

\* C1: whenever a stateful style has just been rendered at width W, its
\* column storage has exactly W entries (Windy: clamp(W*H/40, 10, 200)
\* streaks), also when the terminal was resized while another style was
\* active.
C1_StorageSizedToFrame ==
    /\ rendered = "MatrixRain" => Len(matrix_columns) = last_width
    /\ rendered = "Snowfall" => Len(snow_columns) = last_width
    /\ rendered = "Rainy" => Len(rain_columns) = last_width
    /\ rendered = "Stormy" =>
          storm_state # NoStorm /\ Len(storm_state.rain_columns) = last_width
    /\ rendered = "Windy" => Len(wind_streaks) = num_streaks(last_width, last_height)

\* C2: when the same stateful style is rendered on two consecutive frames,
\* its storage is rebuilt on the second frame exactly when the width or the
\* height differs from the previous frame or the storage is empty (absent,
\* for the storm); otherwise the existing storage is kept and only advanced
\* by the style's update with the frame's delta.
C2_Kept(style) ==
    \E speed \in AnimationSpeed :
        CASE style = "MatrixRain" ->
                matrix_columns' = matrix_update(matrix_columns, delta_ms', last_height', speed)
          [] style = "Snowfall" ->
                snow_columns' = update_snow(snow_columns, delta_ms', last_height', speed)
          [] style = "Rainy" ->
                rain_columns' = update_rain(rain_columns, delta_ms', last_height', speed)
          [] style = "Stormy" ->
                storm_state' = update_storm(storm_state, clock', delta_ms', last_height', speed)
          [] style = "Windy" ->
                wind_streaks' = update_wind(wind_streaks, delta_ms', last_width',
                                            last_height', speed)

C2_ReinitIffResizedOrEmpty ==
    [][\A style \in StatefulStyles :
          (rendered = style /\ rendered' = style) =>
             /\ (style \in inits') <=>
                   \/ last_width' # last_width
                   \/ last_height' # last_height
                   \/ StorageEmpty(style)
             /\ (style \notin inits') => C2_Kept(style)]_vars

\* two calls were made, both MatrixRain (only a MatrixRain frame builds the
\* columns), and the second kept and advanced the columns of the first
C2_Witness ==
    /\ frames = 2
    /\ rendered = "MatrixRain"
    /\ inits = {}
    /\ delta_ms > 0
    /\ matrix_columns # <<>>

\* C3: for a frame that is neither None nor reactive the delta passed to the
\* animators is max(0, elapsed_ms - last_update_ms), never negative, and
\* last_update_ms becomes the supplied elapsed_ms.
C3_DeltaSaturates ==
    [][rendered' \in StatefulStyles \cup {"Stateless"} =>
          /\ delta_ms' = IF clock' > last_update_ms THEN clock' - last_update_ms ELSE 0
          /\ delta_ms' >= 0
          /\ last_update_ms' = clock']_vars

\* after two calls the single matrix column has moved, so the first frame
\* came with elapsed_ms = 1000, and the second frame came with elapsed_ms = 0
C3_Witness ==
    /\ frames = 2
    /\ rendered = "MatrixRain"
    /\ inits = {}
    /\ last_update_ms = 0
    /\ delta_ms = 0
    /\ matrix_columns # init_columns(last_width, last_height)

\* C4: for every style and every terminal size, including width 0, height 0
\* and width 1, rendering a frame never panics.
C4_NeverPanics == ~panicked

-----------------------------------------------------------------------------
(* Properties of the column animators, checked under Spec *)

\* the columns the update of the latest frame started from
MatrixBefore ==
    IF "MatrixRain" \in inits' THEN init_columns(last_width', last_height')
    ELSE matrix_columns

SnowBefore ==
    IF "Snowfall" \in inits' THEN init_snow_columns(last_width', last_height', init_seed)
    ELSE snow_columns

RainBefore ==
    IF "Rainy" \in inits' THEN init_rain_columns(last_width', last_height', init_seed)
    ELSE rain_columns

\* C5: matrix::update resets a column whose advanced head position is
\* greater than height + trail_length to exactly -trail_length and adds one
\* to its char_seed (trail_length 5, height 20, y 24 advanced by 10 ends at
\* -5); a column that does not pass the limit keeps the advanced position
\* and its seed.  After every update y <= height + trail_length.
C5_Example ==
    LET col == [y |-> 24 * MatrixUnit, speed |-> 30, trail_length |-> 5, char_seed |-> 7]
        out == matrix_update_col(col, 10 * MatrixUnit, 20)
    IN out.y = -(5 * MatrixUnit) /\ out.char_seed = 8

C5_Bounded ==
    rendered = "MatrixRain" =>
        \A i \in 1..Len(matrix_columns) :
            matrix_columns[i].y
                <= (last_height + matrix_columns[i].trail_length) * MatrixUnit

C5_Step ==
    rendered' = "MatrixRain" =>
        /\ Len(matrix_columns') = Len(MatrixBefore)
        /\ \E speed \in AnimationSpeed :
              \A i \in 1..Len(MatrixBefore) :
                  LET old == MatrixBefore[i]
                      new == matrix_columns'[i]
                      y1 == old.y + delta_ms' * matrix_fall_speed2(speed) * old.speed
                  IN IF y1 > (last_height' + old.trail_length) * MatrixUnit
                     THEN /\ new.y = -(old.trail_length * MatrixUnit)
                          /\ new.char_seed = old.char_seed + 1
                     ELSE /\ new.y = y1
                          /\ new.char_seed = old.char_seed

C5_MatrixWraps == [](C5_Example /\ C5_Bounded) /\ [][C5_Step]_vars

\* the first column of a MatrixRain frame has been reset above the screen
C5_Witness ==
    /\ rendered = "MatrixRain"
    /\ Len(matrix_columns) >= 1
    /\ matrix_columns[1].y = -(matrix_columns[1].trail_length * MatrixUnit)
    /\ matrix_columns[1].char_seed = 1

\* C6: snow and rain positions stay bounded under any updates: after every
\* update_snow each y <= height + 2 (a column past it is reset to -2), after
\* every update_rain each y <= height + 1 (reset to -1), and each reset adds
\* one to the column's char_seed.
C6_Bounded ==
    /\ rendered = "Snowfall" =>
          \A i \in 1..Len(snow_columns) : snow_columns[i].y <= (last_height + 2) * SnowUnit
    /\ rendered = "Rainy" =>
          \A i \in 1..Len(rain_columns) : rain_columns[i].y <= (last_height + 1) * RainUnit
    /\ rendered = "Stormy" =>
          \A i \in 1..Len(storm_state.rain_columns) :
              storm_state.rain_columns[i].y <= (last_height + 1) * RainUnit

C6_SnowStep ==
    rendered' = "Snowfall" =>
        /\ Len(snow_columns') = Len(SnowBefore)
        /\ \E speed \in AnimationSpeed :
              \A i \in 1..Len(SnowBefore) :
                  LET old == SnowBefore[i]
                      new == snow_columns'[i]
                      y1 == old.y + delta_ms' * snow_fall_speed2(speed) * old.speed
                  IN IF y1 > (last_height' + 2) * SnowUnit
                     THEN new.y = -(2 * SnowUnit) /\ new.char_seed = old.char_seed + 1
                     ELSE new.y = y1 /\ new.char_seed = old.char_seed

C6_RainStep ==
    rendered' = "Rainy" =>
        /\ Len(rain_columns') = Len(RainBefore)
        /\ \E speed \in AnimationSpeed :
              \A i \in 1..Len(RainBefore) :
                  LET old == RainBefore[i]
                      new == rain_columns'[i]
                      y1 == old.y + delta_ms' * rain_fall_speed2(speed) * old.speed
                  IN IF y1 > (last_height' + 1) * RainUnit
                     THEN new.y = -RainUnit /\ new.char_seed = old.char_seed + 1
                     ELSE new.y = y1 /\ new.char_seed = old.char_seed

C6_SnowRainBounded == []C6_Bounded /\ [][C6_SnowStep /\ C6_RainStep]_vars

\* a snow column has been reset to -2 in a frame that kept the columns
C6_Witness ==
    /\ rendered = "Snowfall"
    /\ inits = {}
    /\ \E i \in 1..Len(snow_columns) : snow_columns[i].y = -(2 * SnowUnit)

-----------------------------------------------------------------------------
(* Properties of the storm state machine, checked under SpecStorm *)

Calm(state) == state.lightning_duration_ms = 0

Flash(state) == state.lightning_duration_ms > 0

\* time since the last flash as the latest call saw it
SinceFlash == IF clock' > storm_state.last_lightning_ms
              THEN clock' - storm_state.last_lightning_ms ELSE 0

InSomeSpeedRange(interval) ==
    \E speed \in AnimationSpeed :
        /\ lightning_interval_ms(speed)[1] <= interval
        /\ interval <= lightning_interval_ms(speed)[2]

\* C7: flashes never overlap: update_storm triggers a flash only while
\* lightning_duration_ms is 0, and between two triggers some call has left
\* flash_intensity exactly 0 and lightning_duration_ms 0.
C7_FlashesNeverOverlap ==
    [][flashes' = flashes + 1 => Calm(storm_state) /\ calm_seen]_vars

C7_Witness == flashes >= 2

\* C9: update_storm moves Calm to Flash exactly when lightning_duration_ms
\* is 0 and the saturating time since last_lightning_ms is strictly greater
\* than next_lightning_interval; the transition sets last_lightning_ms to
\* the call's elapsed_ms, flash_intensity to 1.0 and lightning_duration_ms
\* to 100 + lightning_seed mod 150, a value in 100..250.
C9_CalmToFlash ==
    [][frames' = frames + 1 =>
          /\ (Calm(storm_state) /\ Flash(storm_state')) <=>
                (Calm(storm_state) /\ SinceFlash > storm_state.next_lightning_interval)
          /\ (Calm(storm_state) /\ Flash(storm_state')) =>
                /\ storm_state'.last_lightning_ms = clock'
                /\ storm_state'.flash_intensity = [num |-> 1, den |-> 1]
                /\ storm_state'.lightning_duration_ms
                      = 100 + (storm_state.lightning_seed % 150)
                /\ storm_state'.lightning_duration_ms \in 100..250]_vars

\* a flash was triggered by the latest call
C9_Witness ==
    /\ flashes >= 1
    /\ Flash(storm_state)
    /\ storm_state.last_lightning_ms = clock
    /\ ~calm_seen

\* C10: update_storm moves Flash to Calm exactly when lightning_duration_ms
\* is positive and the time since the flash started is strictly greater than
\* it; the transition zeroes lightning_duration_ms and flash_intensity and
\* draws next_lightning_interval = min + (lightning_seed * 17) mod (max - min)
\* for the [min, max] of the call's speed, from the seed as it was, and then
\* adds elapsed_ms to lightning_seed.  Every next_lightning_interval the
\* state holds lies within the [min, max] range of some speed.
C10_Step ==
    frames' = frames + 1 =>
        /\ (Flash(storm_state) /\ Calm(storm_state')) <=>
              (Flash(storm_state) /\ SinceFlash > storm_state.lightning_duration_ms)
        /\ (Flash(storm_state) /\ Calm(storm_state')) =>
              /\ storm_state'.flash_intensity = [num |-> 0, den |-> 1]
              /\ storm_state'.lightning_seed = storm_state.lightning_seed + clock'
              /\ \E speed \in AnimationSpeed :
                    LET min_interval == lightning_interval_ms(speed)[1]
                        max_interval == lightning_interval_ms(speed)[2]
                    IN /\ storm_state'.next_lightning_interval
                             = min_interval + ((storm_state.lightning_seed * 17)
                                               % (max_interval - min_interval))
                       /\ min_interval <= storm_state'.next_lightning_interval
                       /\ storm_state'.next_lightning_interval <= max_interval

-----------------------------------------------------------------------------
(* The flash cycle under a steady caller, checked under SpecStormCycle *)

\* C8: from init_storm with any seed, with elapsed_ms growing by a fixed
\* positive step, a flash is eventually triggered, every flash eventually
\* ends, and after every flash another one follows.  The run is cut at
\* CycleHorizon, so a flash or a calm period counts when the time it needs
\* (at most 250 ms, at most the interval of 15000 ms, plus one step) is left.
C8_FlashCycle ==
    /\ <>(storm_state.flash_intensity.num > 0)
    /\ [](Flash(storm_state) /\ clock + 250 + delta_ms <= CycleHorizon
             => <>Calm(storm_state))
    /\ [](Calm(storm_state) /\ clock + 15000 + delta_ms <= CycleHorizon
             => <>Flash(storm_state))

\* a second flash is in progress
C8_Witness == flashes >= 2 /\ Flash(storm_state) /\ storm_state.flash_intensity.num > 0

-----------------------------------------------------------------------------
(* Single function calls: Init draws the arguments, the action runs the call *)

\* a BackgroundState that is not being rendered, around a call under evaluation
Idle ==
    /\ New(0)
    /\ panicked = FALSE
    /\ rendered = "Nothing"
    /\ delta_ms = 0
    /\ inits = {}
    /\ frames = 0
    /\ flashes = 0
    /\ calm_seen = TRUE
    /\ clock = 0

Returned(value) == [fn |-> "returned", value |-> value]

\* the call returns value
Returns(value) ==
    /\ output = Pending
    /\ output' = Returned(value)
    /\ UNCHANGED <<bgvars, panicked, rendered, delta_ms, inits, frames, flashes,
                   calm_seen, clock, input, monvars>>

-----------------------------------------------------------------------------
(* matrix::init_columns (SpecInitColumns) *)

MaxWidth == 9

MaxHeight == 6

InitInitColumns ==
    /\ Idle
    /\ cells = NoMonitor
    /\ threads = NoMonitor
    /\ output = Pending
    /\ \E width \in 0..MaxWidth, height \in 1..MaxHeight :
          input = [fn |-> "init_columns", width |-> width, height |-> height]

CallInitColumns ==
    /\ input.fn = "init_columns"
    /\ Returns(init_columns(input.width, input.height))

NextInitColumns == CallInitColumns

SpecInitColumns == InitInitColumns /\ [][NextInitColumns]_vars

\* C11: init_columns(width, height) with height > 0 returns exactly width
\* columns; column x starts at y = -((7x + 3) mod 2*height), a position in
\* (-2*height, 0], with trail_length = 4 + (11x mod 8) in 4..11 and
\* char_seed = 17x; in a 3x5 grid column 0 starts at -3 and column 1 at 0.
C11_InitColumns ==
    output.fn = "returned" =>
        LET cols == output.value
            height == input.height
        IN /\ Len(cols) = input.width
           /\ \A i \in 1..Len(cols) :
                 LET x == i - 1
                 IN /\ cols[i].y = -(((7 * x + 3) % (2 * height)) * MatrixUnit)
                    /\ cols[i].y > -(2 * height * MatrixUnit)
                    /\ cols[i].y <= 0
                    /\ cols[i].trail_length = 4 + ((11 * x) % 8)
                    /\ cols[i].trail_length \in 4..11
                    /\ cols[i].char_seed = 17 * x
           /\ (input.width = 3 /\ height = 5) =>
                 /\ cols[1].y = -(3 * MatrixUnit)
                 /\ cols[2].y = 0

\* the 3x5 grid of the example has been built
C11_Witness ==
    /\ output.fn = "returned"
    /\ input.width = 3
    /\ input.height = 5
    /\ Len(output.value) = 3

-----------------------------------------------------------------------------
(* weather::init_wind_streaks and update_wind at fixed dimensions (SpecWind) *)

MaxWindCalls == 3

\* 1x1 and 3x2 give the minimum of 10 streaks, 25x20 gives 12, 100x81 the maximum of 200
WindSizes == {<<1, 1>>, <<3, 2>>, <<25, 20>>, <<100, 81>>}

WindSeeds == {0, 1007}

WindDeltas == {0, 30, 900}

InitWindWith(width, height, seed) ==
    /\ matrix_columns = <<>>
    /\ snow_columns = <<>>
    /\ rain_columns = <<>>
    /\ storm_state = NoStorm
    /\ wind_streaks = <<>>
    /\ last_width = width
    /\ last_height = height
    /\ last_update_ms = 0
    /\ init_seed = seed
    /\ panicked = FALSE
    /\ rendered = "Nothing"
    /\ delta_ms = 0
    /\ inits = {}
    /\ frames = 0
    /\ flashes = 0
    /\ calm_seen = TRUE
    /\ clock = 0
    /\ cells = NoMonitor
    /\ threads = NoMonitor
    /\ input = NoCall
    /\ output = NoCall

InitWind ==
    \E size \in WindSizes, seed \in WindSeeds : InitWindWith(size[1], size[2], seed)

\* the streaks are built for the dimensions and seed of the state
WindInit ==
    /\ wind_streaks = <<>>
    /\ wind_streaks' = init_wind_streaks(last_width, last_height, init_seed)
    /\ input' = [fn |-> "init_wind_streaks"]
    /\ UNCHANGED <<matrix_columns, snow_columns, rain_columns, storm_state,
                   last_width, last_height, last_update_ms, init_seed, panicked,
                   rendered, delta_ms, inits, frames, flashes, calm_seen, clock, output,
                   monvars>>

\* one update_wind at the dimensions the streaks were built for
WindUpdate ==
    \E delta \in WindDeltas, speed \in AnimationSpeed :
        /\ wind_streaks # <<>>
        /\ frames < MaxWindCalls
        /\ frames' = frames + 1
        /\ delta_ms' = delta
        /\ input' = [fn |-> "update_wind", speed |-> speed]
        /\ wind_streaks' = update_wind(wind_streaks, delta, last_width, last_height, speed)
        /\ UNCHANGED <<matrix_columns, snow_columns, rain_columns, storm_state,
                       last_width, last_height, last_update_ms, init_seed, panicked,
                       rendered, inits, flashes, calm_seen, clock, output, monvars>>

NextWind == WindInit \/ WindUpdate

SpecWind == InitWind /\ [][NextWind]_vars

WindCount(width, height) ==
    LET density == (width * height) \div 40
    IN IF density < 10 THEN 10 ELSE IF density > 200 THEN 200 ELSE density

C12_Shape ==
    wind_streaks # <<>> =>
        /\ Len(wind_streaks) = WindCount(last_width, last_height)
        /\ \A i \in 1..Len(wind_streaks) :
              /\ wind_streaks[i].length \in 3..8
              /\ wind_streaks[i].y \in 0..(last_height - 1)
              /\ wind_streaks[i].x <= (last_width + wind_streaks[i].length) * WindUnit

C12_Step ==
    (frames' = frames + 1) =>
        /\ Len(wind_streaks') = Len(wind_streaks)
        /\ \A i \in 1..Len(wind_streaks) :
              LET old == wind_streaks[i]
                  new == wind_streaks'[i]
                  moved == old.x + delta_ms' * wind_streak_speed2(input'.speed) * old.speed
                  limit == (last_width + old.length) * WindUnit
              IN /\ moved >= old.x
                 /\ new.length = old.length
                 /\ IF moved > limit
                    THEN /\ new.x = -(old.length * WindUnit)
                         /\ new.y = (old.char_seed * 17) % last_height
                         /\ new.y < last_height
                         /\ new.char_seed = old.char_seed + 1
                    ELSE /\ new.x = moved
                         /\ new.y = old.y
                         /\ new.char_seed = old.char_seed

\* C12: init_wind_streaks with width, height > 0 creates
\* clamp(width*height/40, 10, 200) streaks with length in 3..8 and row
\* y < height; update_wind moves x only to the right, and a streak whose x
\* exceeds width + length restarts at x = -length on row
\* (char_seed * 17) mod height with char_seed + 1; after any sequence of
\* updates every streak has x <= width + length and y < height.
C12_WindStreaks == []C12_Shape /\ [][C12_Step]_vars

\* a streak of a grid wider than high has wrapped twice
C12_Witness ==
    /\ frames >= 2
    /\ Len(wind_streaks) = 10
    /\ last_width > last_height
    /\ \E i \in 1..Len(wind_streaks) :
          /\ wind_streaks[i].x = -(wind_streaks[i].length * WindUnit)
          /\ wind_streaks[i].char_seed = (i - 1) * 37 * 31 + init_seed * 31 + 2

-----------------------------------------------------------------------------
(* stateless::render_starfield_char (SpecStarfield) *)

\* sigye_core: AnimationSpeed::star_twinkle_period_ms
star_twinkle_period_ms(speed) ==
    CASE speed = "Slow" -> 3000
      [] speed = "Medium" -> 2000
      [] speed = "Fast" -> 1000

\* chars::STAR_CHARS has 6 glyphs; a glyph is named by its index
StarCharsLen == 6

Blank == [ch |-> " ", fg |-> "none"]

StarColor(brightness) ==
    CASE brightness = 0 -> <<60, 60, 80>>
      [] brightness = 1 -> <<100, 100, 140>>
      [] OTHER -> <<150, 150, 200>>

\* a hash of the position and the time itself, not of the twinkle frame
render_starfield_char_untimed(x, y, elapsed_ms, speed) ==
    LET seed == x * 31 + y * 17 + elapsed_ms
    IN IF seed % 100 < 3
       THEN [ch |-> <<"STAR_CHARS", seed % StarCharsLen>>, fg |-> StarColor(seed % 3)]
       ELSE Blank

render_starfield_char(x, y, elapsed_ms, speed) ==
    LET period == star_twinkle_period_ms(speed)
        frame_num == elapsed_ms \div period
        seed == x * 31 + y * 17 + frame_num
    IN IF seed % 100 < 3
       THEN [ch |-> <<"STAR_CHARS", seed % StarCharsLen>>, fg |-> StarColor(seed % 3)]
       ELSE Blank

\* cells (x, y) with x, y in 0..StarGrid
StarGrid == 9

StarTimes == {0, 1, 999, 1000, 2999, 3000, 5999, 200000}

InitStarfield ==
    /\ Idle
    /\ cells = NoMonitor
    /\ threads = NoMonitor
    /\ output = Pending
    /\ \E x \in 0..StarGrid, y \in 0..StarGrid, elapsed_ms \in StarTimes,
          speed \in AnimationSpeed :
          input = [fn |-> "render_starfield_char", x |-> x, y |-> y,
                   elapsed_ms |-> elapsed_ms, speed |-> speed]

CallStarfield ==
    /\ input.fn = "render_starfield_char"
    /\ Returns(render_starfield_char(input.x, input.y, input.elapsed_ms, input.speed))

NextStarfield == CallStarfield

SpecStarfield == InitStarfield /\ [][NextStarfield]_vars

\* C13: render_starfield_char shows a star at (x, y) exactly when
\* seed = 31x + 17y + floor(elapsed_ms / twinkle_period) has seed mod 100 < 3,
\* coloured by the tier seed mod 3 (tier 0 is (60,60,80)); cell (0,0) at
\* elapsed_ms = 0 is a dim star; and a cell's output is the same for every
\* elapsed_ms of one twinkle period.
C13_Starfield ==
    output.fn = "returned" =>
        LET period == star_twinkle_period_ms(input.speed)
            seed == 31 * input.x + 17 * input.y + (input.elapsed_ms \div period)
            span == output.value
        IN /\ (span # Blank) <=> (seed % 100 < 3)
           /\ (span # Blank) =>
                 /\ span.ch[1] = "STAR_CHARS"
                 /\ span.fg = StarColor(seed % 3)
                 /\ (seed % 3 = 0) => span.fg = <<60, 60, 80>>
           /\ (input.x = 0 /\ input.y = 0 /\ input.elapsed_ms = 0) =>
                 (span # Blank /\ span.fg = <<60, 60, 80>>)
           /\ \A other \in StarTimes :
                 (other \div period = input.elapsed_ms \div period) =>
                    render_starfield_char(input.x, input.y, other, input.speed) = span

\* a star drawn late in a twinkle period that another sampled time shares
C13_Witness ==
    /\ output.fn = "returned"
    /\ output.value # Blank
    /\ input.elapsed_ms = 2999
    /\ input.speed = "Slow"

-----------------------------------------------------------------------------
(* The cells of a frame, and a run of frames replayed (SpecReplay) *)

\* chars::MATRIX_CHARS and chars::RAIN_CHARS; a glyph is named by its index
MatrixCharsLen == 30

RainCharsLen == 7

\* matrix::render_char.  intensity = 1 - distance/trail_length is kept exact.
matrix_render_char(columns, x, y) ==
    IF x >= Len(columns) THEN Blank
    ELSE LET col == columns[x + 1]
             head_y == col.y
             tail_y == head_y - col.trail_length * MatrixUnit
             cell_y == y * MatrixUnit
             distance_from_head == head_y - cell_y
         IN IF cell_y >= tail_y /\ cell_y <= head_y
            THEN [ch |-> <<"MATRIX_CHARS", (col.char_seed + y) % MatrixCharsLen>>,
                  fg |-> IF distance_from_head < MatrixUnit
                         THEN <<200, 255, 200>>
                         ELSE <<0,
                                (200 * col.trail_length * MatrixUnit
                                   - 120 * distance_from_head)
                                  \div (col.trail_length * MatrixUnit),
                                0>>]
            ELSE Blank

\* weather::render_rain_char: a drop within 0.6 of the cell's row
render_rain_char(columns, x, y) ==
    IF x >= Len(columns) THEN Blank
    ELSE LET col == columns[x + 1]
             diff == y * RainUnit - col.y
             distance == IF diff < 0 THEN -diff ELSE diff
         IN IF 5 * distance < 3 * RainUnit
            THEN [ch |-> <<"RAIN_CHARS", col.char_seed % RainCharsLen>>,
                  fg |-> CASE col.intensity = 0 -> <<100, 120, 150>>
                           [] col.intensity = 1 -> <<80, 100, 140>>
                           [] OTHER -> <<60, 80, 120>>]
            ELSE Blank

\* A renderer whose float arithmetic is not reproduced: the span is named by
\* the function and the values it is handed, which are all it reads.
SpanOf(fn, args) == [ch |-> fn, fg |-> args]

\* BackgroundState::render_char (&self)
render_char(x, y, width, height, style, elapsed_ms, speed) ==
    CASE style = "None" -> Blank
      [] style = "Starfield" -> render_starfield_char(x, y, elapsed_ms, speed)
      [] style = "MatrixRain" -> matrix_render_char(matrix_columns, x, y)
      [] style = "Snowfall" ->
            SpanOf("render_snow_char", <<snow_columns, x, y, elapsed_ms>>)
      [] style = "Rainy" -> render_rain_char(rain_columns, x, y)
      [] style = "Stormy" ->
            IF storm_state # NoStorm
            THEN SpanOf("render_storm_char", <<storm_state, x, y, elapsed_ms>>)
            ELSE Blank
      [] style = "Windy" ->
            SpanOf("render_wind_char", <<wind_streaks, x, y, elapsed_ms>>)
      [] style \in ReactiveStyles -> Blank
      [] OTHER ->
            SpanOf(style, <<x, y, width, height, elapsed_ms, speed>>)

\* the spans handed to the frame: one per cell, from the storage as updated
Cells(style, width, height, elapsed_ms, speed) ==
    [cell \in (0..(width - 1)) \X (0..(height - 1)) |->
        render_char(cell[1], cell[2], width, height, style, elapsed_ms, speed)]

Storage ==
    [matrix_columns |-> matrix_columns, snow_columns |-> snow_columns,
     rain_columns |-> rain_columns, storm_state |-> storm_state,
     wind_streaks |-> wind_streaks, last_width |-> last_width,
     last_height |-> last_height, last_update_ms |-> last_update_ms,
     init_seed |-> init_seed]

\* frames of a run
ReplayLen == 2

ReplayStyles == {"None", "Starfield", "MatrixRain", "Rainy", "Stormy"}

ReplaySizes == {<<1, 1>>, <<2, 1>>}

ReplaySpeeds == {"Slow", "Fast"}

\* what a frame leaves behind: the spans drawn and the storage
FrameResult(style, width, height, elapsed_ms, speed) ==
    [cells |-> IF rendered \in {"Skipped", "Panicked"} THEN <<>>
               ELSE Cells(style, width, height, elapsed_ms, speed),
     storage |-> Storage]

InitReplay ==
    /\ \E seed \in InitSeeds : New(seed)
    /\ panicked = FALSE
    /\ rendered = "Nothing"
    /\ delta_ms = 0
    /\ inits = {}
    /\ frames = 0
    /\ flashes = 0
    /\ calm_seen = TRUE
    /\ clock = 0
    /\ cells = NoMonitor
    /\ threads = NoMonitor
    /\ input = [fn |-> "first", log |-> <<>>]
    /\ output = [first |-> <<>>, second |-> <<>>]

\* a frame of the first run, with any arguments; the arguments are logged
ReplayFirst ==
    \E style \in ReplayStyles, size \in ReplaySizes, elapsed_ms \in Times,
       speed \in ReplaySpeeds :
        /\ input.fn = "first"
        /\ Len(input.log) < ReplayLen
        /\ Render(style, size[1], size[2], elapsed_ms, speed, FALSE)
        /\ UNCHANGED monvars
        /\ input' = [input EXCEPT
                        !.log = Append(@, <<style, size[1], size[2], elapsed_ms, speed>>)]
        /\ output' = [output EXCEPT
                        !.first = Append(@, FrameResult(style, size[1], size[2],
                                                        elapsed_ms, speed)')]

\* the second run starts from the BackgroundState the first run started from
ReplayRestart ==
    /\ input.fn = "first"
    /\ Len(input.log) = ReplayLen
    /\ input' = [input EXCEPT !.fn = "second"]
    /\ matrix_columns' = <<>>
    /\ snow_columns' = <<>>
    /\ rain_columns' = <<>>
    /\ storm_state' = NoStorm
    /\ wind_streaks' = <<>>
    /\ last_width' = 0
    /\ last_height' = 0
    /\ last_update_ms' = 0
    /\ panicked' = FALSE
    /\ rendered' = "Nothing"
    /\ delta_ms' = 0
    /\ inits' = {}
    /\ frames' = 0
    /\ clock' = 0
    /\ UNCHANGED <<init_seed, flashes, calm_seen, output, monvars>>

\* a frame of the second run, with the arguments the first run logged
ReplaySecond ==
    /\ input.fn = "second"
    /\ Len(output.second) < Len(input.log)
    /\ UNCHANGED <<input, monvars>>
    /\ \E args \in {input.log[Len(output.second) + 1]} :
          /\ Render(args[1], args[2], args[3], args[4], args[5], FALSE)
          /\ output' = [output EXCEPT
                          !.second = Append(@, FrameResult(args[1], args[2], args[3],
                                                           args[4], args[5])')]

NextReplay == ReplayFirst \/ ReplayRestart \/ ReplaySecond

SpecReplay == InitReplay /\ [][NextReplay]_vars

-----------------------------------------------------------------------------
(* color.rs (SpecHsl, SpecResourceColor) *)

\* Saturation and lightness are multiples of 1/HslUnit, hue is in whole
\* degrees and may lie outside [0, 360); p, q and the channels are exact
\* fractions, where the source rounds to f32.
HslUnit == 200

\* float as u8: truncated, saturating at 0 and 255
as_u8(num, den) ==
    IF num <= 0 THEN 0
    ELSE IF num \div den > 255 THEN 255
    ELSE num \div den

\* hue_to_rgb(p, q, t) * 60 * HslUnit^2, with p and q over HslUnit^2 and t in degrees/360
hue_to_rgb(p, q, t) ==
    LET t1 == IF t < 0 THEN t + 360 ELSE t
        t2 == IF t1 > 360 THEN t1 - 360 ELSE t1
    IN IF t2 < 60 THEN p * 60 + (q - p) * t2
       ELSE IF t2 < 180 THEN q * 60
       ELSE IF t2 < 240 THEN p * 60 + (q - p) * (240 - t2)
       ELSE p * 60

\* a gray rounded to the nearest level instead of truncated
hsl_to_rgb_rounded(h, s, l) ==
    IF s = 0
    THEN LET v == as_u8(2 * l * 255 + HslUnit, 2 * HslUnit) IN <<v, v, v>>
    ELSE LET q == IF 2 * l < HslUnit THEN l * (HslUnit + s)
                  ELSE l * HslUnit + s * HslUnit - l * s
             p == 2 * l * HslUnit - q
             den == 60 * HslUnit * HslUnit
         IN <<as_u8(hue_to_rgb(p, q, h + 120) * 255, den),
              as_u8(hue_to_rgb(p, q, h) * 255, den),
              as_u8(hue_to_rgb(p, q, h - 120) * 255, den)>>

hsl_to_rgb(h, s, l) ==
    IF s = 0
    THEN LET v == as_u8(l * 255, HslUnit) IN <<v, v, v>>
    ELSE LET q == IF 2 * l < HslUnit THEN l * (HslUnit + s)
                  ELSE l * HslUnit + s * HslUnit - l * s
             p == 2 * l * HslUnit - q
             den == 60 * HslUnit * HslUnit
         IN <<as_u8(hue_to_rgb(p, q, h + 120) * 255, den),
              as_u8(hue_to_rgb(p, q, h) * 255, den),
              as_u8(hue_to_rgb(p, q, h - 120) * 255, den)>>

Hues == {15 * k : k \in 0..23} \cup {1, 59, 61, 179, 241, 359}

Fractions == {0, 1, 50, 99, 100, 101, 199, 200}

InitHsl ==
    /\ Idle
    /\ cells = NoMonitor
    /\ threads = NoMonitor
    /\ output = Pending
    /\ \E h \in Hues, s \in Fractions, l \in Fractions :
          input = [fn |-> "hsl_to_rgb", h |-> h, s |-> s, l |-> l]

CallHsl ==
    /\ input.fn = "hsl_to_rgb"
    /\ Returns(hsl_to_rgb(input.h, input.s, input.l))

NextHsl == CallHsl

SpecHsl == InitHsl /\ [][NextHsl]_vars

\* C15: for h in [0, 360) and s, l in [0, 1] hsl_to_rgb returns red, green
\* and blue within 0..255; with s = 0 all three equal floor(l * 255), and
\* hsl_to_rgb(0, 0, 0.5) is (127, 127, 127).
C15_HslToRgb ==
    output.fn = "returned" =>
        LET rgb == output.value
        IN /\ \A c \in 1..3 : rgb[c] \in 0..255
           /\ input.s = 0 =>
                 \A c \in 1..3 : rgb[c] = (input.l * 255) \div HslUnit
           /\ (input.h = 0 /\ input.s = 0 /\ 2 * input.l = HslUnit) =>
                 rgb = <<127, 127, 127>>

\* the gray of the example has been computed
C15_Witness ==
    /\ output.fn = "returned"
    /\ input.fn = "hsl_to_rgb"
    /\ input.h = 0
    /\ input.s = 0
    /\ 2 * input.l = HslUnit
    /\ output.value = <<127, 127, 127>>

\* resource values are tenths: value 0.3 is 3
ValueUnit == 10

\* the hue resource_to_color hands to hsl_to_rgb
resource_hue(value) ==
    LET v == clamp(value, 0, ValueUnit)
    IN 240 - (v * 240) \div ValueUnit

\* a value used as it comes
resource_to_color_unclamped(value) ==
    hsl_to_rgb(240 - (value * 240) \div ValueUnit,
               (6 * HslUnit) \div 10 + (value * 4 * HslUnit) \div (10 * ValueUnit),
               (15 * HslUnit) \div 100 + (value * 25 * HslUnit) \div (100 * ValueUnit))

resource_to_color(value) ==
    LET v == clamp(value, 0, ValueUnit)
    IN hsl_to_rgb(resource_hue(value),
                  (6 * HslUnit) \div 10 + (v * 4 * HslUnit) \div (10 * ValueUnit),
                  (15 * HslUnit) \div 100 + (v * 25 * HslUnit) \div (100 * ValueUnit))

\* values from -MaxValue/10 to MaxValue/10
MaxValue == 50

InitResourceColor ==
    /\ Idle
    /\ cells = NoMonitor
    /\ threads = NoMonitor
    /\ output = Pending
    /\ \E value \in (-MaxValue)..MaxValue :
          input = [fn |-> "resource_to_color", value |-> value]

CallResourceColor ==
    /\ input.fn = "resource_to_color"
    /\ Returns([hue |-> resource_hue(input.value), color |-> resource_to_color(input.value)])

NextResourceColor == CallResourceColor

SpecResourceColor == InitResourceColor /\ [][NextResourceColor]_vars

\* C16: resource_to_color clamps its input to [0, 1] and uses hue
\* 240 - 240 * value: over 0.0, 0.1, ..., 1.0 the hue falls strictly from 240
\* to 0; every input below 0 gives the colour of 0 and every input above 1
\* the colour of 1.
C16_ResourceColor ==
    output.fn = "returned" =>
        LET value == input.value
        IN /\ value \in 0..ValueUnit => output.value.hue = 240 - 24 * value
           /\ value = 0 => output.value.hue = 240
           /\ value = ValueUnit => output.value.hue = 0
           /\ value \in 0..(ValueUnit - 1) => output.value.hue > resource_hue(value + 1)
           /\ value < 0 => output.value.color = resource_to_color(0)
           /\ value > ValueUnit => output.value.color = resource_to_color(ValueUnit)

\* a value below 0 has been coloured like 0
C16_Witness ==
    /\ output.fn = "returned"
    /\ input.fn = "resource_to_color"
    /\ input.value < 0
    /\ output.value.hue = 240

-----------------------------------------------------------------------------
(* sigye: SystemMonitor and WeatherMonitor (SpecMonitor)                     *)
(*                                                                         *)
(* Both monitors keep a primary RwLock cell (metrics, resolved_background)  *)
(* and a cache RwLock cell (cached_metrics, cached_background); a producer  *)
(* thread writes the primary and then the cache, and the render loop reads  *)
(* with get_metrics / get_background.  A lock guard lives from the         *)
(* acquisition to the end of the if-let block, so taking a write lock and   *)
(* storing under it are two steps.  The reader's guards live for one clone, *)
(* which is one step.                                                       *)

\* SystemMetrics::default() / BackgroundStyle::Starfield, and two other values
DefaultSnapshot == "Default"

Snapshots == {DefaultSnapshot, "A", "B"}

\* SystemMonitor::new / WeatherMonitor::new; the thread starts with start()
InitMonitor ==
    /\ Idle
    /\ input = NoCall
    /\ output = NoCall
    /\ cells = [metrics |-> DefaultSnapshot, metrics_writer |-> FALSE,
                cached_metrics |-> DefaultSnapshot, cached_writer |-> FALSE]
    /\ threads = [producer |-> "not_started", new_metrics |-> DefaultSnapshot,
                  published |-> FALSE, cache_written |-> "none",
                  reader |-> "idle", result |-> "none", via |-> "none"]

MonitorStep ==
    UNCHANGED <<bgvars, panicked, rendered, delta_ms, inits, frames, flashes,
                calm_seen, clock, input, output>>

\* start(): thread::spawn
Start ==
    /\ threads.producer = "not_started"
    /\ threads' = [threads EXCEPT !.producer = "sleeping"]
    /\ UNCHANGED cells
    /\ MonitorStep

\* the producer has a new value and takes the write lock of the primary cell
ProducerLockMetrics ==
    \E new_metrics \in Snapshots :
        /\ threads.producer = "sleeping"
        /\ threads' = [threads EXCEPT !.producer = "writing_metrics",
                                      !.new_metrics = new_metrics]
        /\ cells' = [cells EXCEPT !.metrics_writer = TRUE]
        /\ MonitorStep

\* *m = new_metrics.clone(), and the guard is dropped
ProducerStoreMetrics ==
    /\ threads.producer = "writing_metrics"
    /\ cells' = [cells EXCEPT !.metrics = threads.new_metrics, !.metrics_writer = FALSE]
    /\ threads' = [threads EXCEPT !.producer = "wrote_metrics", !.published = TRUE]
    /\ MonitorStep

\* the producer takes the write lock of the cache cell
ProducerLockCached ==
    /\ threads.producer = "wrote_metrics"
    /\ cells' = [cells EXCEPT !.cached_writer = TRUE]
    /\ threads' = [threads EXCEPT !.producer = "writing_cached"]
    /\ MonitorStep

\* *c = new_metrics, the guard is dropped, and the thread sleeps
ProducerStoreCached ==
    /\ threads.producer = "writing_cached"
    /\ cells' = [cells EXCEPT !.cached_metrics = threads.new_metrics,
                              !.cached_writer = FALSE]
    /\ threads' = [threads EXCEPT !.producer = "sleeping", !.published = TRUE,
                                  !.cache_written = threads.new_metrics]
    /\ MonitorStep

\* the fallback always answers with the default
cached_read_default(c) == DefaultSnapshot

\* self.cached_metrics.read(): the value under the cache lock
cached_read(c) == c.cached_metrics

\* get_metrics / get_background: self.metrics.try_read()
ReaderTryRead ==
    /\ threads.reader = "idle"
    /\ threads' = IF ~cells.metrics_writer
                  THEN [threads EXCEPT !.reader = "returned", !.result = cells.metrics,
                                       !.via = "metrics"]
                  ELSE [threads EXCEPT !.reader = "read_cached"]
    /\ UNCHANGED cells
    /\ MonitorStep

\* self.cached_metrics.read(): granted once no writer holds the cache cell
ReaderReadCached ==
    /\ threads.reader = "read_cached"
    /\ ~cells.cached_writer
    /\ threads' = [threads EXCEPT !.reader = "returned", !.result = cached_read(cells),
                                  !.via = "cached"]
    /\ UNCHANGED cells
    /\ MonitorStep

\* the render loop calls again in the next frame
ReaderNextFrame ==
    /\ threads.reader = "returned"
    /\ threads' = [threads EXCEPT !.reader = "idle", !.result = "none", !.via = "none"]
    /\ UNCHANGED cells
    /\ MonitorStep

Producer ==
    \/ Start
    \/ ProducerLockMetrics
    \/ ProducerStoreMetrics
    \/ ProducerLockCached
    \/ ProducerStoreCached

Reader == ReaderTryRead \/ ReaderReadCached \/ ReaderNextFrame

NextMonitor == Producer \/ Reader

\* Both threads keep running.  The producer sleeps for a second (a minute in
\* the weather monitor) after each round, so a reader waiting for the cache
\* cell finds it free again and again: strong fairness for the reader.
SpecMonitor ==
    InitMonitor /\ [][NextMonitor]_vars /\ WF_vars(Producer) /\ SF_vars(Reader)

\* the reader is inside cached_metrics.read() while the producer holds the write lock
ReaderBlocked ==
    /\ threads.reader = "read_cached"
    /\ cells.cached_writer

\* C17: get_metrics and get_background never block on the producer: in
\* every interleaving with the producer's write sequence (lock primary,
\* release, lock cache, release) the reader never waits for a lock the
\* producer holds.
C17_ReaderNeverWaits == ~ReaderBlocked

C18_Return ==
    (threads.reader # "returned" /\ threads'.reader = "returned") =>
        /\ threads'.result \in Snapshots
        /\ ~threads.published => threads'.result = DefaultSnapshot
        /\ threads'.via = "cached" =>
              threads'.result = IF threads.cache_written = "none"
                                THEN DefaultSnapshot
                                ELSE threads.cache_written

\* C18: reading never fails: every call of get_metrics / get_background
\* returns a value; before the producer has published anything it is the
\* default (all-zero metrics without battery, Starfield); and when the
\* primary cell cannot be read it is the last value the producer wrote to
\* the cache (the default the cache was created with, before the first
\* such write).
C18_ReadNeverFails ==
    /\ [][C18_Return]_vars
    /\ (threads.reader = "idle") ~> (threads.reader = "returned")
    /\ (threads.reader = "read_cached") ~> (threads.reader = "returned")

\* a call that could not read the primary cell returned the cached value of the round before
C18_Witness ==
    /\ threads.reader = "returned"
    /\ threads.via = "cached"
    /\ threads.result # DefaultSnapshot
    /\ threads.result = threads.cache_written
    /\ threads.new_metrics # threads.result

-----------------------------------------------------------------------------
(* sigye weather.rs: map_weather_to_background (SpecWeatherMap) *)

WeatherCondition ==
    {"Clear", "PartlyCloudy", "Cloudy", "Rain", "HeavyRain", "Thunderstorm",
     "Snow", "Fog", "Windy", "VeryCold"}

TimeOfDay == {"Day", "Night", "Dawn", "Dusk"}

ByCondition(condition) ==
    CASE condition = "Clear" -> "Sunny"
      [] condition = "PartlyCloudy" -> "Cloudy"
      [] condition = "Cloudy" -> "Cloudy"
      [] condition = "Rain" -> "Rainy"
      [] condition = "HeavyRain" -> "Stormy"
      [] condition = "Thunderstorm" -> "Stormy"
      [] condition = "Snow" -> "Snowfall"
      [] condition = "Fog" -> "Foggy"
      [] condition = "Windy" -> "Windy"
      [] condition = "VeryCold" -> "Frost"

Abs(n) == IF n < 0 THEN -n ELSE n

\* the cold rule ahead of the night rules
map_weather_to_background_cold_first(weather) ==
    IF weather.time_of_day = "Dawn" /\ weather.condition \in {"Clear", "PartlyCloudy"}
    THEN "TwilightDawn"
    ELSE IF weather.time_of_day = "Dusk" /\ weather.condition \in {"Clear", "PartlyCloudy"}
    THEN "TwilightDusk"
    ELSE IF weather.temp_c < -10
    THEN "Frost"
    ELSE IF /\ weather.time_of_day = "Night"
            /\ weather.condition = "Clear"
            /\ Abs(weather.latitude) > 55
    THEN "Aurora"
    ELSE IF weather.time_of_day = "Night" /\ weather.condition = "Clear"
    THEN "Starfield"
    ELSE ByCondition(weather.condition)

\* latitude is in whole degrees
map_weather_to_background(weather) ==
    IF weather.time_of_day = "Dawn" /\ weather.condition \in {"Clear", "PartlyCloudy"}
    THEN "TwilightDawn"
    ELSE IF weather.time_of_day = "Dusk" /\ weather.condition \in {"Clear", "PartlyCloudy"}
    THEN "TwilightDusk"
    ELSE IF /\ weather.time_of_day = "Night"
            /\ weather.condition = "Clear"
            /\ Abs(weather.latitude) > 55
    THEN "Aurora"
    ELSE IF weather.time_of_day = "Night" /\ weather.condition = "Clear"
    THEN "Starfield"
    ELSE IF weather.temp_c < -10
    THEN "Frost"
    ELSE ByCondition(weather.condition)

Temperatures == {-30, -11, -10, -9, 20}

Latitudes == {-90, -56, -55, 0, 55, 56, 70}

InitWeatherMap ==
    /\ Idle
    /\ cells = NoMonitor
    /\ threads = NoMonitor
    /\ output = Pending
    /\ \E condition \in WeatherCondition, time_of_day \in TimeOfDay,
          temp_c \in Temperatures, latitude \in Latitudes :
          input = [fn |-> "map_weather_to_background", condition |-> condition,
                   time_of_day |-> time_of_day, temp_c |-> temp_c, latitude |-> latitude]

CallWeatherMap ==
    /\ input.fn = "map_weather_to_background"
    /\ Returns(map_weather_to_background(input))

NextWeatherMap == CallWeatherMap

SpecWeatherMap == InitWeatherMap /\ [][NextWeatherMap]_vars

\* C19: map_weather_to_background applies, for every condition, time of
\* day, temperature and latitude, the first rule that matches of: Dawn with
\* Clear/PartlyCloudy -> TwilightDawn; Dusk with Clear/PartlyCloudy ->
\* TwilightDusk; Night with Clear and |latitude| > 55 -> Aurora; Night with
\* Clear -> Starfield; temperature below -10 -> Frost; else by condition
\* (Clear Sunny, PartlyCloudy and Cloudy Cloudy, Rain Rainy, HeavyRain and
\* Thunderstorm Stormy, Snow Snowfall, Fog Foggy, Windy Windy, VeryCold
\* Frost).  The result is never None and never a reactive style.
C19_WeatherMap ==
    output.fn = "returned" =>
        LET style == output.value
            fair == input.condition \in {"Clear", "PartlyCloudy"}
            dawn == input.time_of_day = "Dawn" /\ fair
            dusk == input.time_of_day = "Dusk" /\ fair
            clear_night == input.time_of_day = "Night" /\ input.condition = "Clear"
            polar == input.latitude > 55 \/ input.latitude < -55
            cold == input.temp_c < -10
            sky == ~dawn /\ ~dusk /\ ~clear_night
        IN /\ dawn => style = "TwilightDawn"
           /\ dusk => style = "TwilightDusk"
           /\ (clear_night /\ polar) => style = "Aurora"
           /\ (clear_night /\ ~polar) => style = "Starfield"
           /\ (sky /\ cold) => style = "Frost"
           /\ (sky /\ ~cold) =>
                 /\ input.condition = "Clear" => style = "Sunny"
                 /\ input.condition \in {"PartlyCloudy", "Cloudy"} => style = "Cloudy"
                 /\ input.condition = "Rain" => style = "Rainy"
                 /\ input.condition \in {"HeavyRain", "Thunderstorm"} => style = "Stormy"
                 /\ input.condition = "Snow" => style = "Snowfall"
                 /\ input.condition = "Fog" => style = "Foggy"
                 /\ input.condition = "Windy" => style = "Windy"
                 /\ input.condition = "VeryCold" => style = "Frost"
           /\ style # "None"
           /\ ~is_reactive(style)

\* a clear polar night below -10 C has been mapped (Aurora wins over Frost)
C19_Witness ==
    /\ output.fn = "returned"
    /\ input.fn = "map_weather_to_background"
    /\ input.time_of_day = "Night"
    /\ input.condition = "Clear"
    /\ input.temp_c < -10
    /\ input.latitude > 55
    /\ output.value = "Aurora"

-----------------------------------------------------------------------------
(* sigye weather.rs: parse_time_to_minutes (SpecParseTime)                   *)
(* A &str is the sequence of its characters.                                *)

None == [some |-> FALSE]

Some(value) == [some |-> TRUE, value |-> value]

DigitChars == <<"0", "1", "2", "3", "4", "5", "6", "7", "8", "9">>

IsDigit(c) == \E d \in 1..10 : DigitChars[d] = c

DigitValue(c) == (CHOOSE d \in 1..10 : DigitChars[d] = c) - 1

Whitespace == {" ", "\t"}

\* str::split: the pieces between separators, empty pieces included
RECURSIVE split(_, _)
split(str, separators) ==
    IF \A k \in 1..Len(str) : str[k] \notin separators
    THEN <<str>>
    ELSE LET first == CHOOSE k \in 1..Len(str) :
                         /\ str[k] \in separators
                         /\ \A j \in 1..(k - 1) : str[j] \notin separators
         IN <<SubSeq(str, 1, first - 1)>>
               \o split(SubSeq(str, first + 1, Len(str)), separators)

\* str::split_whitespace: the non-empty pieces between whitespace
split_whitespace(str) == SelectSeq(split(str, Whitespace), LAMBDA part : part # <<>>)

RECURSIVE digits_value(_)
digits_value(digits) ==
    IF digits = <<>> THEN 0
    ELSE digits_value(SubSeq(digits, 1, Len(digits) - 1)) * 10
            + DigitValue(digits[Len(digits)])

\* str::parse::<u32>: decimal digits after an optional '+'; the texts of the
\* model have at most three digits, far from the overflow error
parse_u32(str) ==
    LET digits == IF str # <<>> /\ str[1] = "+" THEN Tail(str) ELSE str
    IN IF digits = <<>> \/ \E k \in 1..Len(digits) : ~IsDigit(digits[k])
       THEN None
       ELSE Some(digits_value(digits))

\* str::to_uppercase on the letters of the model's texts
to_uppercase(str) ==
    [k \in 1..Len(str) |->
        CASE str[k] = "a" -> "A"
          [] str[k] = "b" -> "B"
          [] str[k] = "m" -> "M"
          [] str[k] = "p" -> "P"
          [] str[k] = "x" -> "X"
          [] OTHER -> str[k]]

\* twelve added to every PM hour, noon included
parse_time_to_minutes_noon_plus_12(time_str) ==
    LET parts == split_whitespace(time_str)
    IN IF Len(parts) # 2 THEN None
       ELSE LET time_parts == split(parts[1], {":"})
            IN IF Len(time_parts) # 2 THEN None
               ELSE LET hours == parse_u32(time_parts[1])
                        minutes == parse_u32(time_parts[2])
                        is_pm == to_uppercase(parts[2]) = <<"P", "M">>
                    IN IF ~hours.some \/ ~minutes.some THEN None
                       ELSE Some((IF is_pm THEN hours.value + 12 ELSE hours.value) * 60
                                 + minutes.value)

parse_time_to_minutes(time_str) ==
    LET parts == split_whitespace(time_str)
    IN IF Len(parts) # 2 THEN None
       ELSE LET time_parts == split(parts[1], {":"})
            IN IF Len(time_parts) # 2 THEN None
               ELSE LET hours == parse_u32(time_parts[1])
                        minutes == parse_u32(time_parts[2])
                        is_pm == to_uppercase(parts[2]) = <<"P", "M">>
                    IN IF ~hours.some \/ ~minutes.some THEN None
                       ELSE LET hours1 == IF is_pm /\ hours.value # 12
                                          THEN hours.value + 12
                                          ELSE IF ~is_pm /\ hours.value = 12
                                          THEN 0
                                          ELSE hours.value
                            IN Some(hours1 * 60 + minutes.value)

\* the text "H:MM AM" or "HH:MM PM" of a time, with gap spaces before AM/PM
TimeText(hours, minutes, pm, padded, gap) ==
    LET two(n) == <<DigitChars[(n \div 10) + 1], DigitChars[(n % 10) + 1]>>
        h == IF padded \/ hours >= 10 THEN two(hours) ELSE <<DigitChars[hours + 1]>>
    IN h \o <<":">> \o two(minutes) \o [k \in 1..gap |-> " "]
         \o (IF pm THEN <<"P", "M">> ELSE <<"A", "M">>)

Minutes == {0, 1, 30, 45, 59}

\* texts that are not two whitespace-separated parts with an H:M first part
Malformed ==
    {<<>>,
     <<"0", "6", ":", "4", "5">>,
     <<"0", "6", ":", "4", "5", " ", "A", "M", " ", "P", "M">>,
     <<"0", "6", "4", "5", " ", "A", "M">>,
     <<"0", "6", ":", "4", "5", ":", "0", "0", " ", "A", "M">>,
     <<"a", "b", ":", "4", "5", " ", "A", "M">>,
     <<"0", "6", ":", " ", "A", "M">>,
     <<":", "4", "5", " ", "P", "M">>,
     <<"A", "M", " ", "0", "6", ":", "4", "5">>,
     <<"0", "6", "-", "4", "5", " ", "P", "M">>,
     <<"6", ":", "4", "x", " ", "P", "M">>,
     <<" ", " ", " ">>}

InitParseTime ==
    /\ Idle
    /\ cells = NoMonitor
    /\ threads = NoMonitor
    /\ output = Pending
    /\ \/ \E hours \in 1..12, minutes \in Minutes, pm \in BOOLEAN,
            padded \in BOOLEAN, gap \in 1..2 :
            input = [fn |-> "parse_time_to_minutes", kind |-> "time",
                     hours |-> hours, minutes |-> minutes, pm |-> pm,
                     time_str |-> TimeText(hours, minutes, pm, padded, gap)]
       \/ \E time_str \in Malformed :
            input = [fn |-> "parse_time_to_minutes", kind |-> "malformed",
                     hours |-> 0, minutes |-> 0, pm |-> FALSE, time_str |-> time_str]

CallParseTime ==
    /\ input.fn = "parse_time_to_minutes"
    /\ Returns(parse_time_to_minutes(input.time_str))

NextParseTime == CallParseTime

SpecParseTime == InitParseTime /\ [][NextParseTime]_vars

\* C20: for a 12-hour time "HH:MM AM|PM" with hours 1..12 and minutes 0..59
\* parse_time_to_minutes returns ((hours mod 12) + 12 if PM) * 60 + minutes,
\* a value in 0..1439 (0 for 12:00 AM, 720 for 12:00 PM); a text that does
\* not split into exactly two whitespace-separated parts with an H:M first
\* part yields None.
C20_ParseTime ==
    output.fn = "returned" =>
        LET parsed == output.value
        IN /\ input.kind = "time" =>
                 /\ parsed = Some(((input.hours % 12) + (IF input.pm THEN 12 ELSE 0)) * 60
                                  + input.minutes)
                 /\ parsed.value \in 0..1439
                 /\ (input.hours = 12 /\ input.minutes = 0 /\ ~input.pm) => parsed.value = 0
                 /\ (input.hours = 12 /\ input.minutes = 0 /\ input.pm) => parsed.value = 720
           /\ input.kind = "malformed" => parsed = None

\* "12:00 PM" has been parsed
C20_Witness ==
    /\ output.fn = "returned"
    /\ input.fn = "parse_time_to_minutes"
    /\ input.time_str = <<"1", "2", ":", "0", "0", " ", "P", "M">>
    /\ output.value = Some(720)

-----------------------------------------------------------------------------
(* Ownership of the storages, checked under Spec *)

StorageOf(style) ==
    CASE style = "MatrixRain" -> matrix_columns
      [] style = "Snowfall" -> snow_columns
      [] style = "Rainy" -> rain_columns
      [] style = "Stormy" -> storm_state
      [] style = "Windy" -> wind_streaks

\* C21: a frame rendered with style S initializes and updates only the
\* storage of S: the columns, the storm state and the wind streaks of every
\* other stateful style are exactly what they were before the frame (not
\* advanced, not rebuilt, not cleared), for any sequence of style switches.
C21_OnlyOwnStorage ==
    [][\A style \in StatefulStyles :
          rendered' # style => StorageOf(style)' = StorageOf(style)]_vars

\* three frames: MatrixRain built its columns, another style was drawn since,
\* a resize included, and the matrix columns are the ones of the old width
C21_Witness ==
    /\ frames = 3
    /\ rendered = "Snowfall"
    /\ inits = {"Snowfall"}
    /\ snow_columns # <<>>
    /\ matrix_columns # <<>>
    /\ Len(matrix_columns) # last_width

-----------------------------------------------------------------------------
(* The fading of a flash, checked under SpecStorm *)

\* a <= b for two flash_intensity fractions
IntensityLeq(a, b) == a.num * b.den <= b.num * a.den

\* C22: while a flash is in progress (lightning_duration_ms > 0 and the time
\* t since the flash started is at most the duration) update_storm sets
\* flash_intensity to 1 - t/duration, a value in [0, 1]; from one call to the
\* next with an elapsed_ms that did not go back the intensity of a flash
\* never increases; and in every state a positive flash_intensity comes with
\* a positive lightning_duration_ms.
C22_Step ==
    (frames' = frames + 1 /\ Flash(storm_state)
       /\ SinceFlash <= storm_state.lightning_duration_ms) =>
        LET duration == storm_state.lightning_duration_ms
            intensity == storm_state'.flash_intensity
        IN /\ storm_state'.lightning_duration_ms = duration
           /\ intensity.num * duration = (duration - SinceFlash) * intensity.den
           /\ IntensityLeq(Intensity(0, 1), intensity)
           /\ IntensityLeq(intensity, Intensity(1, 1))
           /\ clock' >= clock => IntensityLeq(intensity, storm_state.flash_intensity)

C22_Positive ==
    storm_state.flash_intensity.num > 0 => storm_state.lightning_duration_ms > 0

C22_FlashFades == []C22_Positive /\ [][C22_Step]_vars

\* a flash of 207 ms seen 150 ms after its start, two or three calls into it
C22_Witness ==
    /\ Flash(storm_state)
    /\ storm_state.lightning_duration_ms = 207
    /\ clock = storm_state.last_lightning_ms + 150
    /\ storm_state.flash_intensity = [num |-> 57, den |-> 207]

-----------------------------------------------------------------------------
(* sigye weather.rs: fetch_and_update (SpecFetch)                           *)
(*                                                                         *)
(* Instants are whole minutes since the monitor was created.  A call of     *)
(* fetch_and_update is made by a monitor thread right after start() and     *)
(* then periodically; stop() and a later start() put any span of time       *)
(* between two calls.                                                       *)

FETCH_INTERVAL == 30

Err == [ok |-> FALSE]

Ok(data) == [ok |-> TRUE, data |-> data]

\* what fetch_weather may answer with: rain by day, a clear night, a cold day
FetchedWeather ==
    {[condition |-> "Rain", time_of_day |-> "Day", temp_c |-> 20, latitude |-> 0],
     [condition |-> "Clear", time_of_day |-> "Night", temp_c |-> 20, latitude |-> 0],
     [condition |-> "Cloudy", time_of_day |-> "Day", temp_c |-> -30, latitude |-> 0]}

\* fetch_weather returning at instant now: fetched_at is taken as the data is built
fetch_weather(weather, now) ==
    Ok([condition |-> weather.condition, time_of_day |-> weather.time_of_day,
        temp_c |-> weather.temp_c, latitude |-> weather.latitude,
        fetched_at |-> now])

FetchResults(now) == {Err} \cup {fetch_weather(weather, now) : weather \in FetchedWeather}

\* data that counts as fresh up to and including the 30th minute
is_fresh_inclusive(data, now) == now - data.fetched_at <= FETCH_INTERVAL

\* WeatherData::is_fresh, evaluated at instant now
is_fresh(data, now) == now - data.fetched_at < FETCH_INTERVAL

\* WeatherMonitor::new
NewWeatherCells ==
    [weather_data |-> None,
     resolved_background |-> "Starfield",
     cached_background |-> "Starfield"]

\* fetch_and_update with fetch_weather answering result at instant now
fetch_and_update(shared, result, now) ==
    IF result.ok
    THEN LET background == map_weather_to_background(result.data)
         IN [shared EXCEPT !.weather_data = Some(result.data),
                           !.resolved_background = background,
                           !.cached_background = background]
    ELSE LET should_fallback ==
                 IF shared.weather_data = None THEN TRUE
                 ELSE ~is_fresh(shared.weather_data.value, now)
         IN IF should_fallback
            THEN [shared EXCEPT !.resolved_background = "Starfield",
                                !.cached_background = "Starfield"]
            ELSE shared

MaxFetchCalls == 3

\* minutes between one call and the next
FetchWaits == {0, 1, 29, 30, 31}

InitFetch ==
    /\ Idle
    /\ input = NoCall
    /\ output = NoCall
    /\ cells = NewWeatherCells
    /\ threads = [now |-> 0, calls |-> 0]

FetchCall ==
    \E wait \in FetchWaits :
        LET now == threads.now + wait
        IN \E result \in FetchResults(now) :
              /\ threads.calls < MaxFetchCalls
              /\ threads' = [now |-> now, calls |-> threads.calls + 1]
              /\ input' = [fn |-> "fetch_and_update", result |-> result, now |-> now]
              /\ cells' = fetch_and_update(cells, result, now)
              /\ output' = Returned(cells')
              /\ UNCHANGED <<bgvars, panicked, rendered, delta_ms, inits, frames,
                             flashes, calm_seen, clock>>

NextFetch == FetchCall

SpecFetch == InitFetch /\ [][NextFetch]_vars

\* C23: when the fetch of fetch_and_update fails and weather data of an
\* earlier successful fetch exists and was fetched less than 30 minutes ago,
\* the resolved and the cached background are left as they are; when it
\* fails with no data yet or with older data, both become Starfield.  When
\* the fetch succeeds, the stored data, the resolved background and the
\* cached background are replaced by the new result, and the resolved and
\* the cached background are equal when the call returns.
C23_Step ==
    threads'.calls = threads.calls + 1 =>
        LET result == input'.result
            now == input'.now
            data == cells.weather_data
        IN /\ result.ok =>
                 /\ cells'.weather_data = Some(result.data)
                 /\ cells'.resolved_background = map_weather_to_background(result.data)
                 /\ cells'.cached_background = cells'.resolved_background
           /\ (~result.ok /\ data # None /\ now - data.value.fetched_at < 30) =>
                 /\ cells'.resolved_background = cells.resolved_background
                 /\ cells'.cached_background = cells.cached_background
           /\ (~result.ok /\ (data = None \/ now - data.value.fetched_at >= 30)) =>
                 /\ cells'.resolved_background = "Starfield"
                 /\ cells'.cached_background = "Starfield"

C23_FetchAndUpdate == [][C23_Step]_vars

\* a fetch failed 29 minutes after the one that brought rain, and Rainy was kept
C23_Witness ==
    /\ input.fn = "fetch_and_update"
    /\ ~input.result.ok
    /\ cells.weather_data # None
    /\ input.now - cells.weather_data.value.fetched_at = 29
    /\ cells.resolved_background = "Rainy"
    /\ cells.cached_background = "Rainy"

-----------------------------------------------------------------------------
(* reactive.rs: render_resource_wave (SpecResourceWave)                     *)
(*                                                                         *)
(* Rows and distances are kept in 1/1000 row, angles in 1/1000 radian and   *)
(* sines in 1/1000; memory_usage is in tenths, as for resource_to_color.    *)

WaveUnit == 1000

\* std::f32::consts::PI in 1/1000 radian
Pi == 3141

\* sigye_core: AnimationSpeed::wave_period_ms
wave_period_ms(speed) ==
    CASE speed = "Slow" -> 8000
      [] speed = "Medium" -> 4000
      [] speed = "Fast" -> 2000

\* sin of an angle in 0..Pi by Bhaskara's formula 16p / (5 pi^2 - 4p) with
\* p = t (pi - t), within 0.002 of the sine
half_sin(t) ==
    LET p == (t * (Pi - t)) \div WaveUnit
    IN (16 * p * WaveUnit) \div ((5 * Pi * Pi) \div WaveUnit - 4 * p)

\* f32::sin of a non-negative angle
sin(angle) ==
    LET t == angle % (2 * Pi)
    IN IF t <= Pi THEN half_sin(t) ELSE -half_sin(t - Pi)

\* the row of the wave curve in column x
wave_y(x, width, height, elapsed_ms, speed, mem) ==
    LET amplitude == (mem * height * WaveUnit) \div (3 * ValueUnit)
        period == wave_period_ms(speed)
        time_phase == ((elapsed_ms % period) * WaveUnit) \div period
        x_norm == (x * WaveUnit) \div width
    IN (height * WaveUnit) \div 2
       + (amplitude * sin(x_norm * 4 + (time_phase * 2 * Pi) \div WaveUnit)) \div WaveUnit

\* the span of cell (x, y)
resource_wave_char(x, y, width, height, elapsed_ms, speed, mem) ==
    LET dist == Abs(y * WaveUnit - wave_y(x, width, height, elapsed_ms, speed, mem))
    IN IF dist < 3 * WaveUnit
       THEN [ch |-> IF 2 * dist < WaveUnit THEN "full block"
                    ELSE IF 2 * dist < 3 * WaveUnit THEN "dark shade"
                    ELSE "light shade",
             fg |-> resource_to_color(mem)]
       ELSE Blank

\* the spans render_resource_wave hands to the frame
render_resource_wave(width, height, elapsed_ms, speed, mem) ==
    [cell \in (0..(width - 1)) \X (0..(height - 1)) |->
        resource_wave_char(cell[1], cell[2], width, height, elapsed_ms, speed, mem)]

WaveSizes == {<<1, 1>>, <<1, 3>>, <<3, 2>>, <<4, 6>>, <<4, 9>>}

WaveTimes == {0, 500, 1700, 3000, 9000}

InitResourceWave ==
    /\ Idle
    /\ cells = NoMonitor
    /\ threads = NoMonitor
    /\ output = Pending
    /\ \E size \in WaveSizes, elapsed_ms \in WaveTimes, speed \in AnimationSpeed,
          mem \in 0..ValueUnit :
          input = [fn |-> "render_resource_wave", width |-> size[1], height |-> size[2],
                   elapsed_ms |-> elapsed_ms, speed |-> speed, memory_usage |-> mem]

CallResourceWave ==
    /\ input.fn = "render_resource_wave"
    /\ Returns(render_resource_wave(input.width, input.height, input.elapsed_ms,
                                    input.speed, input.memory_usage))

NextResourceWave == CallResourceWave

SpecResourceWave == InitResourceWave /\ [][NextResourceWave]_vars

\* the rows of column x that are drawn
WaveRows(x) ==
    {y \in 0..(input.height - 1) : output.value[<<x, y>>] # Blank}

\* C24: the wave of ResourceWave is drawn 3 rows thick: for every column and
\* every memory_usage in [0, 1] at most 3 rows of the column are not blank,
\* and the glyph of a drawn cell is one of three levels chosen by the cell's
\* distance from the wave curve.
C24_WaveThreeRows ==
    output.fn = "returned" =>
        \A x \in 0..(input.width - 1) :
            /\ Cardinality(WaveRows(x)) <= 3
            /\ \A y \in WaveRows(x) :
                  output.value[<<x, y>>].ch \in {"full block", "dark shade", "light shade"}

-----------------------------------------------------------------------------
(* sigye: start() and stop() of SystemMonitor / WeatherMonitor              *)
(* (SpecLifecycle)                                                          *)
(*                                                                         *)
(* The owner of the monitor calls start() and stop() in any order.  Each    *)
(* spawned thread runs: the work before the loop (baseline refresh, first   *)
(* fetch), then loop { check running; poll and publish; sleep }.            *)

MaxLifecycleCalls == 4

\* a start() spawns at most one thread
ThreadIds == 1..MaxLifecycleCalls

\* a thread running its loop or about to enter it
Alive(t) == threads.pc[t] \in {"spawned", "check", "work", "sleep"}

\* SystemMonitor::new / WeatherMonitor::new: running is false, no thread yet
InitLifecycle ==
    /\ Idle
    /\ input = NoCall
    /\ output = NoCall
    /\ cells = [running |-> FALSE]
    /\ threads = [pc |-> [t \in ThreadIds |-> "unborn"], calls |-> 0]

LifecycleStep ==
    UNCHANGED <<bgvars, panicked, rendered, delta_ms, inits, frames, flashes,
                calm_seen, clock, output>>

\* thread::spawn: the first thread that does not exist yet comes to life
spawn(pc) ==
    LET t == CHOOSE t \in ThreadIds :
                 pc[t] = "unborn" /\ \A u \in ThreadIds : u < t => pc[u] # "unborn"
    IN [pc EXCEPT ![t] = "spawned"]

\* a start() that spawns without looking at the flag
start_unguarded(running, pc) ==
    [running |-> TRUE, pc |-> spawn(pc)]

\* start(): returns early when running is set, else sets it and spawns
start(running, pc) ==
    IF running THEN [running |-> running, pc |-> pc]
    ELSE [running |-> TRUE, pc |-> spawn(pc)]

CallStart ==
    /\ threads.calls < MaxLifecycleCalls
    /\ LET after == start(cells.running, threads.pc)
       IN /\ cells' = [running |-> after.running]
          /\ threads' = [pc |-> after.pc, calls |-> threads.calls + 1]
    /\ input' = [fn |-> "start", running |-> cells.running]
    /\ LifecycleStep

\* stop(): *running = false
CallStop ==
    /\ threads.calls < MaxLifecycleCalls
    /\ cells' = [running |-> FALSE]
    /\ threads' = [threads EXCEPT !.calls = threads.calls + 1]
    /\ input' = [fn |-> "stop", running |-> cells.running]
    /\ LifecycleStep

\* the work ahead of the loop is done
ThreadBegin(t) ==
    /\ threads.pc[t] = "spawned"
    /\ threads' = [threads EXCEPT !.pc[t] = "check"]
    /\ UNCHANGED <<cells, input>>
    /\ LifecycleStep

\* if let Ok(is_running) = running.read() && !*is_running { break; }
ThreadCheck(t) ==
    /\ threads.pc[t] = "check"
    /\ threads' = [threads EXCEPT !.pc[t] = IF cells.running THEN "work" ELSE "done"]
    /\ UNCHANGED <<cells, input>>
    /\ LifecycleStep

\* one round of polling and publishing
ThreadWork(t) ==
    /\ threads.pc[t] = "work"
    /\ threads' = [threads EXCEPT !.pc[t] = "sleep"]
    /\ UNCHANGED <<cells, input>>
    /\ LifecycleStep

\* thread::sleep returns
ThreadWake(t) ==
    /\ threads.pc[t] = "sleep"
    /\ threads' = [threads EXCEPT !.pc[t] = "check"]
    /\ UNCHANGED <<cells, input>>
    /\ LifecycleStep

ThreadStep(t) == ThreadBegin(t) \/ ThreadCheck(t) \/ ThreadWork(t) \/ ThreadWake(t)

NextLifecycle ==
    \/ CallStart
    \/ CallStop
    \/ \E t \in ThreadIds : ThreadBegin(t)
    \/ \E t \in ThreadIds : ThreadCheck(t)
    \/ \E t \in ThreadIds : ThreadWork(t)
    \/ \E t \in ThreadIds : ThreadWake(t)

\* every spawned thread is scheduled: its polling and its sleep end
SpecLifecycle ==
    /\ InitLifecycle
    /\ [][NextLifecycle]_vars
    /\ \A t \in ThreadIds : WF_vars(ThreadStep(t))

\* C25: a start() called while the running flag is set spawns no further
\* thread; and once stop() has cleared the flag, unless start() is called
\* again, each background thread sees it at its next loop check and
\* terminates.
C25_Step ==
    /\ (input'.fn = "start" /\ threads'.calls = threads.calls + 1 /\ cells.running) =>
          threads'.pc = threads.pc
    /\ \A t \in ThreadIds :
          (threads.pc[t] = "check" /\ threads'.pc[t] # "check" /\ ~cells.running) =>
              threads'.pc[t] = "done"

C25_Lifecycle ==
    /\ [][C25_Step]_vars
    /\ \A t \in ThreadIds :
          (Alive(t) /\ ~cells.running) ~> (threads.pc[t] = "done" \/ cells.running)

\* a start() found the flag set while the first thread was running, and that
\* thread has terminated after a stop()
C25_Witness ==
    /\ threads.calls = 3
    /\ input.fn = "stop"
    /\ input.running
    /\ threads.pc[1] = "done"
    /\ threads.pc[2] = "unborn"
    /\ ~cells.running

\* C26: for any sequence of start() and stop() calls on one monitor at most
\* one background thread is in its polling loop at a time; stop() followed
\* at once by start() does not leave two threads publishing the snapshot.
C26_SingleProducer ==
    Cardinality({t \in ThreadIds : threads.pc[t] = "work"}) <= 1

-----------------------------------------------------------------------------
(* BackgroundState::render called with an elapsed_ms that never goes back   *)
(* (SpecFrames): input holds the arguments of the latest call and of the    *)
(* call before it, output the creation of the storm state in use.           *)

FrameStyles == {"None"} \cup ReactiveStyles \cup {"Starfield", "Snowfall", "Stormy"}

FrameSizes == {<<1, 1>>, <<2, 1>>}

FrameTimes == {0, 1000, 3008, 3100}

NoFrame == [style |-> "None", elapsed_ms |-> 0]

RenderCall ==
    \E style \in FrameStyles, size \in FrameSizes, elapsed_ms \in FrameTimes,
       metrics \in BOOLEAN :
        LET previous == IF input = NoCall THEN NoFrame
                        ELSE [style |-> input.style, elapsed_ms |-> input.elapsed_ms]
        IN /\ elapsed_ms >= previous.elapsed_ms
           /\ Render(style, size[1], size[2], elapsed_ms, "Medium", metrics)
           /\ input' = [fn |-> "render", style |-> style, elapsed_ms |-> elapsed_ms,
                        previous |-> previous]
           /\ output' = IF "Stormy" \in inits' /\ rendered' = "Stormy"
                        THEN [fn |-> "init_storm", elapsed_ms |-> elapsed_ms,
                              next_lightning_interval |-> 2000 + (init_seed % 3000)]
                        ELSE output
           /\ UNCHANGED monvars

NextFrames == RenderCall

SpecFrames == Init /\ [][NextFrames]_vars

\* the update_storm of the latest frame started a flash
Triggered ==
    /\ rendered' = "Stormy"
    /\ Flash(storm_state')
    /\ storm_state'.last_lightning_ms = input'.elapsed_ms
    /\ "Stormy" \in inits' \/ Calm(storm_state)

\* C27: a storm state created by render at elapsed time T (the first Stormy
\* frame, or a Stormy frame after a resize) stays Calm for at least its
\* initial next_lightning_interval after T: no call of update_storm with
\* elapsed_ms <= T + next_lightning_interval triggers a flash.
C27_CalmAfterCreation ==
    [][(rendered' = "Stormy" /\ output'.fn = "init_storm"
          /\ input'.elapsed_ms <= output'.elapsed_ms + output'.next_lightning_interval)
         => ~Triggered]_vars

\* C28: a frame rendered with None or with a reactive style, with or without
\* metrics, leaves every field of BackgroundState as it was, last_width,
\* last_height and last_update_ms included; so the delta of a stateful frame
\* reaches back to the latest frame of a style that is neither, over any
\* reactive frames in between; a frame of a stateless style does set
\* last_update_ms to its elapsed_ms.
C28_Step ==
    frames' = frames + 1 =>
        /\ (input'.style = "None" \/ is_reactive(input'.style)) => UNCHANGED bgvars
        /\ rendered' \in StatefulStyles => delta_ms' = input'.elapsed_ms - clock
        /\ rendered' = "Stateless" => last_update_ms' = input'.elapsed_ms

C28_ReactiveLeavesState == [][C28_Step]_vars

\* Snowfall at 0, HeatMap at 1000, Snowfall at 3008: the snow is advanced by 3008 ms
C28_Witness ==
    /\ frames = 3
    /\ rendered = "Snowfall"
    /\ inits = {}
    /\ input.previous = [style |-> "HeatMap", elapsed_ms |-> 1000]
    /\ input.elapsed_ms = 3008
    /\ delta_ms = 3008

-----------------------------------------------------------------------------
(* One call of matrix::update, update_snow, update_rain or update_wind      *)
(* (SpecUpdate)                                                             *)

UpdateFns == {"matrix::update", "update_snow", "update_rain", "update_wind"}

UpdateSizes == {<<1, 1>>, <<3, 2>>, <<25, 20>>}

UpdateSeeds == {0, 1007}

\* delta_ms of the call: none, a frame, a second, a hundred seconds
UpdateDeltas == {0, 40, 1000, 100000}

\* delta_ms of the update that came before the call
EarlierDeltas == {0, 700}

init_of(fn, width, height, seed) ==
    CASE fn = "matrix::update" -> init_columns(width, height)
      [] fn = "update_snow" -> init_snow_columns(width, height, seed)
      [] fn = "update_rain" -> init_rain_columns(width, height, seed)
      [] fn = "update_wind" -> init_wind_streaks(width, height, seed)

update_of(fn, columns, delta, width, height, speed) ==
    CASE fn = "matrix::update" -> matrix_update(columns, delta, height, speed)
      [] fn = "update_snow" -> update_snow(columns, delta, height, speed)
      [] fn = "update_rain" -> update_rain(columns, delta, height, speed)
      [] fn = "update_wind" -> update_wind(columns, delta, width, height, speed)

InitUpdate ==
    /\ Idle
    /\ cells = NoMonitor
    /\ threads = NoMonitor
    /\ output = Pending
    /\ \E fn \in UpdateFns, size \in UpdateSizes, seed \in UpdateSeeds,
          earlier \in EarlierDeltas, delta \in UpdateDeltas, speed \in AnimationSpeed :
          input = [fn |-> fn, width |-> size[1], height |-> size[2],
                   delta_ms |-> delta, speed |-> speed,
                   columns |-> update_of(fn, init_of(fn, size[1], size[2], seed),
                                         earlier, size[1], size[2], speed)]

CallUpdate ==
    /\ input.fn \in UpdateFns
    /\ Returns(update_of(input.fn, input.columns, input.delta_ms,
                         input.width, input.height, input.speed))

NextUpdate == CallUpdate

SpecUpdate == InitUpdate /\ [][NextUpdate]_vars

\* the position of a column or streak along its direction of travel
PositionOf(fn, element) == IF fn = "update_wind" THEN element.x ELSE element.y

\* where a wrap puts it
ResetOffset(fn, element) ==
    CASE fn = "matrix::update" -> -(element.trail_length * MatrixUnit)
      [] fn = "update_snow" -> -(2 * SnowUnit)
      [] fn = "update_rain" -> -RainUnit
      [] fn = "update_wind" -> -(element.length * WindUnit)

\* C29: in one update call of matrix, snow, rain or wind each column or
\* streak wraps at most once however large the delta is: its char_seed grows
\* by at most 1, and its position after a wrap is the fixed reset offset
\* (-trail_length, -2, -1, -length), whatever the overshoot was.
C29_WrapsOnce ==
    output.fn = "returned" =>
        /\ Len(output.value) = Len(input.columns)
        /\ \A i \in 1..Len(input.columns) :
              LET old == input.columns[i]
                  new == output.value[i]
              IN /\ new.char_seed \in {old.char_seed, old.char_seed + 1}
                 /\ new.char_seed = old.char_seed + 1 =>
                       PositionOf(input.fn, new) = ResetOffset(input.fn, old)

\* a rain column of a frame 2 rows high was advanced by more than a hundred
\* rows and wrapped once
C29_Witness ==
    /\ output.fn = "returned"
    /\ input.fn = "update_rain"
    /\ input.height = 2
    /\ input.delta_ms = 100000
    /\ \E i \in 1..Len(input.columns) :
          /\ output.value[i].char_seed = input.columns[i].char_seed + 1
          /\ output.value[i].y = -RainUnit
          /\ input.columns[i].y + input.delta_ms * rain_fall_speed2(input.speed)
                                   * input.columns[i].speed > 100 * RainUnit

-----------------------------------------------------------------------------
(* sigye weather.rs: the thread of WeatherMonitor::start (SpecWeatherThread) *)
(*                                                                         *)
(* One start(): the thread fetches at once, notes last_fetch, and then      *)
(* loops: leave if running is false, fetch again if last_fetch is 30        *)
(* minutes old, sleep a minute.  Instants are whole minutes; a fetch takes  *)
(* less than a minute or about one, a sleep one minute or two.              *)

WeatherHorizon == 64

FetchDurations == {0, 1}

SleepDurations == {1, 2}

InitWeatherThread ==
    /\ Idle
    /\ input = NoCall
    /\ output = NoCall
    /\ cells = NewWeatherCells
    /\ threads = [pc |-> "not_started", running |-> FALSE, now |-> 0,
                  last_fetch |-> 0, fetches |-> 0]

WeatherStep ==
    UNCHANGED <<bgvars, panicked, rendered, delta_ms, inits, frames, flashes,
                calm_seen, clock, output>>

\* start(): running = true and thread::spawn
WeatherStart ==
    /\ threads.pc = "not_started"
    /\ threads' = [threads EXCEPT !.pc = "spawned", !.running = TRUE]
    /\ UNCHANGED <<cells, input>>
    /\ WeatherStep

\* stop(), called by the owner at any moment after start()
WeatherStop ==
    /\ threads.pc \notin {"not_started", "done"}
    /\ threads.running
    /\ threads' = [threads EXCEPT !.running = FALSE]
    /\ UNCHANGED <<cells, input>>
    /\ WeatherStep

\* fetch_and_update called by the thread; the call returns at instant now
ThreadFetch(periodic, now, result) ==
    /\ cells' = fetch_and_update(cells, result, now)
    /\ input' = [fn |-> "fetch_and_update", periodic |-> periodic,
                 result |-> result, now |-> now]

\* the fetch right after the start, and last_fetch = Instant::now()
WeatherFirstFetch ==
    \E duration \in FetchDurations :
        LET now == threads.now + duration
        IN \E result \in FetchResults(now) :
              /\ threads.pc = "spawned"
              /\ ThreadFetch(FALSE, now, result)
              /\ threads' = [threads EXCEPT !.pc = "loop", !.now = now,
                                            !.last_fetch = now,
                                            !.fetches = threads.fetches + 1]
              /\ WeatherStep

\* a round of the loop that finds running false: break
WeatherBreak ==
    /\ threads.pc = "loop"
    /\ ~threads.running
    /\ threads' = [threads EXCEPT !.pc = "done"]
    /\ UNCHANGED <<cells, input>>
    /\ WeatherStep

\* a round of the loop before the interval has elapsed: sleep
WeatherSleep ==
    \E sleep \in SleepDurations :
        /\ threads.pc = "loop"
        /\ threads.running
        /\ threads.now - threads.last_fetch < FETCH_INTERVAL
        /\ threads.now + sleep <= WeatherHorizon
        /\ threads' = [threads EXCEPT !.now = threads.now + sleep]
        /\ UNCHANGED <<cells, input>>
        /\ WeatherStep

\* a round of the loop with last_fetch.elapsed() >= FETCH_INTERVAL: fetch, then sleep
WeatherRefetch ==
    \E duration \in FetchDurations, sleep \in SleepDurations :
        LET now == threads.now + duration
        IN \E result \in FetchResults(now) :
              /\ threads.pc = "loop"
              /\ threads.running
              /\ threads.now - threads.last_fetch >= FETCH_INTERVAL
              /\ now + sleep <= WeatherHorizon
              /\ ThreadFetch(TRUE, now, result)
              /\ threads' = [threads EXCEPT !.now = now + sleep, !.last_fetch = now,
                                            !.fetches = threads.fetches + 1]
              /\ WeatherStep

NextWeatherThread ==
    \/ WeatherStart
    \/ WeatherStop
    \/ WeatherFirstFetch
    \/ WeatherBreak
    \/ WeatherSleep
    \/ WeatherRefetch

SpecWeatherThread == InitWeatherThread /\ [][NextWeatherThread]_vars

\* what a periodic fetch of the thread finds: data at least 30 minutes old
StaleAtRefetch ==
    (threads.pc = "loop" /\ threads.now - threads.last_fetch >= FETCH_INTERVAL
       /\ cells.weather_data # None) =>
        \A duration \in FetchDurations :
            ~is_fresh(cells.weather_data.value, threads.now + duration)

=============================================================================
